---------------------------- MODULE Spec2Model ----------------------------
(***************************************************************************)
(* DataGrab ingestion engine: the download scheduler                       *)
(* (pipeline/downloader.py) and the incremental writer                     *)
(* (pipeline/writer.py).                                                   *)
(*                                                                         *)
(* Dates are whole days 1..MaxDay (the interval is "1d", so a row's        *)
(* datetime, a task bound and a filename bound are all days).  A frame is  *)
(* a sequence of rows <<datetime, value>>; the value is the upstream       *)
(* revision the row was fetched at, so that a re-fetched row can be told   *)
(* from the stored one.                                                    *)
(*                                                                         *)
(* Two specifications share the state:                                     *)
(*   Spec      a Downloader with concurrency = 1 and nobody calling        *)
(*             pause/cancel: every worker(task) call runs to completion    *)
(*             before the next starts; runs follow one another with any    *)
(*             symbol list and date range.                                 *)
(*   PoolSpec  the thread pool of Downloader.run, one step per access to   *)
(*             shared state (cancel latch, pause event, stats lock, file   *)
(*             system, source), interleaved with pause/resume/cancel.      *)
(***************************************************************************)
EXTENDS Integers, Sequences, FiniteSets, TLC

\* ---------------------------------------------------------------- bounds
MaxDay == 4
\* Longest symbols list handed to build_tasks.
MaxSymbols == 2
\* Upstream revisions (a revision changes every row's value).
MaxVer == 2
\* Runs of Downloader.run in one behaviour of Spec.
MaxRuns == 3
\* download.batch_days of the model's configuration.
BatchDays == 2

Symbols == {"A", "B"}
Days == 1..MaxDay
INTERVAL == "1d"

\* The provider has a candle for every day but each fourth one (a closed
\* market day), whatever the symbol.
IsTradingDay(d) == d % 4 # 0

\* Symbol "B" was delisted: the provider has no candle of it after this day.
LastCandle == 2
HasCandle(sym, d) == IsTradingDay(d) /\ (sym = "B" => d <= LastCandle)

Min(a, b) == IF a <= b THEN a ELSE b

\* ---------------------------------------------------------------- frames
Datetimes(df) == {df[i][1] : i \in DOMAIN df}

\* (a variant, keep="first": the rows no earlier row shares its datetime with)
UniqueKeepFirst(df) ==
    {df[i] : i \in {k \in DOMAIN df :
                      \A j \in DOMAIN df : j < k => df[j][1] # df[k][1]}}
\* pl.DataFrame.unique(subset=["datetime"], keep="last"): the rows that no
\* later row of the frame shares its datetime with (polars leaves their
\* order unspecified: a set).
UniqueKeepLast(df) ==
    {df[i] : i \in {k \in DOMAIN df :
                      \A j \in DOMAIN df : j > k => df[j][1] # df[k][1]}}

\* pl.DataFrame.sort("datetime") of a set of rows.
RECURSIVE SortByDatetime(_)
SortByDatetime(rows) ==
    IF rows = {} THEN <<>>
    ELSE LET r == CHOOSE x \in rows : \A y \in rows : x[1] <= y[1]
         IN  <<r>> \o SortByDatetime(rows \ {r})

\* df.unique(subset=["datetime"], keep="last").sort("datetime")
DedupSort(df) == SortByDatetime(UniqueKeepLast(df))

\* ---------------------------------------------------------------- source
\* DataSource.fetch_ohlcv(symbol, interval, start, end, adjust) when the
\* provider answers: its candles of [start, end] at revision v.
FetchOhlcv(sym, cs, ce, v) ==
    SortByDatetime({<<d, v>> : d \in {x \in cs..ce : HasCandle(sym, x)}})

\* Downloader._split_range
RECURSIVE SplitRange(_, _)
SplitRange(current, final) ==
    IF current < final
    THEN LET chunk_end == Min(final, current + BatchDays)
         IN  <<<<current, chunk_end>>>> \o SplitRange(chunk_end, final)
    ELSE <<>>

\* The loop of Downloader._fetch_range over chunks, nobody cancelling:
\* the concatenation of the non-empty frames.
RECURSIVE ConcatChunks(_, _, _)
ConcatChunks(sym, chunks, v) ==
    IF chunks = <<>> THEN <<>>
    ELSE FetchOhlcv(sym, chunks[1][1], chunks[1][2], v)
            \o ConcatChunks(sym, Tail(chunks), v)

\* The end of Downloader._fetch_range: no frame -> empty frame, else
\* concat, unique(keep="last"), sort.
CombineFrames(frames) == IF frames = <<>> THEN <<>> ELSE DedupSort(frames)


\* ----------------------------------------------------------- file system
\* A path under data_root/<asset_type>/<symbol>/: the data file
\* <interval>_<start>_<end>.parquet, or (tmp) that name + ".tmp".
Path(sym, s, e, tmp) == [sym |-> sym, start |-> s, end |-> e, tmp |-> tmp]
\* existing = None / existing_path = None
NoPath == Path("", 0, 0, FALSE)
\* read_range_max(...) = None
NoMax == 0

\* A file: the rows it holds once written out, the threads that have it
\* open for writing, and whether two of them wrote different bytes into it.
File(rows, writers, mixed) == [rows |-> rows, writers |-> writers, mixed |-> mixed]

\* A file a reader can parse: nobody is still writing it and it is no mix.
Complete(f) == f.writers = {} /\ ~f.mixed

\* sym_dir.glob(f"{interval}_*.parquet") with the names _parse_range accepts
DataPaths(files, sym) == {p \in DOMAIN files : p.sym = sym /\ ~p.tmp}

\* ParquetWriter.find_existing: candidates sorted by end, the last one.
\* Among candidates of equal end the glob order decides: any of them.
FindExisting(files, sym) ==
    LET c == DataPaths(files, sym)
    IN  IF c = {} THEN {NoPath}
        ELSE {p \in c : \A q \in c : q.end <= p.end}

\* ParquetWriter.read_range_max: None for a missing, unreadable or empty file
ReadRangeMax(files, p) ==
    IF p \notin DOMAIN files THEN NoMax
    ELSE IF ~Complete(files[p]) \/ files[p].rows = <<>> THEN NoMax
    ELSE CHOOSE m \in Datetimes(files[p].rows) :
            \A d \in Datetimes(files[p].rows) : d <= m

\* ParquetWriter._interval_delta("1d") = timedelta(days=1)
IntervalDelta == 1

\* ParquetWriter.next_start
NextStart(last_dt) == last_dt + IntervalDelta

\* ParquetWriter.build_path
BuildPath(sym, s, e) == Path(sym, s, e, FALSE)

\* output_path.with_suffix(output_path.suffix + ".tmp")
TmpOf(p) == Path(p.sym, p.start, p.end, TRUE)

\* Downloader._run_task, lines 218-229: what to do given the existing range.
\* (a variant that takes the file's name for its content: skip whenever
\* the name covers the task's start)
SkipsByName(t, ex, existing_max) == ex # NoPath /\ ex.start <= t.start
Skips(t, ex, existing_max) ==
    ex # NoPath /\ ex.start <= t.start /\ existing_max # NoMax /\ existing_max >= t.end
ExistingStart(t, ex) == IF ex = NoPath THEN t.start ELSE Min(ex.start, t.start)
TaskStart(t, ex, existing_max) ==
    IF ex # NoPath /\ ex.start <= t.start /\ existing_max # NoMax
    THEN NextStart(existing_max) ELSE t.start

\* merge_and_write, lines 126-141: pl.read_parquet(existing_path) raises
MergeReadFails(files, existing_path, merge) ==
    /\ merge /\ existing_path # NoPath /\ existing_path \in DOMAIN files
    /\ ~Complete(files[existing_path])

\* merge_and_write, lines 126-172: the frame to write
MergedFrame(files, existing_path, new_df, merge) ==
    IF merge /\ existing_path # NoPath /\ existing_path \in DOMAIN files
    THEN DedupSort(files[existing_path].rows \o new_df)
    ELSE DedupSort(new_df)

\* pq.write_table(table, tmp) opens tmp for writing: created or truncated.
\* A thread that still has it open goes on writing into the same file.
OpenTmp(files, tmp, w, rows) ==
    LET busy == tmp \in DOMAIN files /\ files[tmp].writers # {}
        f == IF busy
             THEN File(rows, files[tmp].writers \cup {w},
                       files[tmp].mixed \/ files[tmp].rows # rows)
             ELSE File(rows, {w}, FALSE)
    IN  [p \in DOMAIN files \cup {tmp} |-> IF p = tmp THEN f ELSE files[p]]

\* pq.write_table returns: w's last byte is in the file it opened,
\* under whatever name that file has by now.
CloseTmp(files, w) ==
    [p \in DOMAIN files |->
        IF w \in files[p].writers
        THEN File(files[p].rows, files[p].writers \ {w}, files[p].mixed)
        ELSE files[p]]

\* tmp.replace(output_path): os.replace, atomic; the prior file of another
\* name is left in place (merge_and_write ends at line 180).
Rename(files, tmp, out, prior) ==
    [p \in (DOMAIN files \ {tmp}) \cup {out} |->
        IF p = out THEN files[tmp] ELSE files[p]]

\* Downloader.build_tasks: symbols x intervals, in order
BuildTasks(symbols, intervals, start, end) ==
    [k \in 1..(Len(symbols) * Len(intervals)) |->
        [sym |-> symbols[((k - 1) \div Len(intervals)) + 1],
         interval |-> intervals[((k - 1) % Len(intervals)) + 1],
         start |-> start, end |-> end]]

\* The symbol lists a driver may pass: any sequence, repeats included.
SymbolLists == UNION {[1..n -> Symbols] : n \in 1..MaxSymbols}


\* ------------------------------------------------------------------ state
VARIABLES
    fs,            \* data_root: path -> file
    ver,           \* the upstream's current revision
    mergeOn,       \* ParquetWriter.merge_on_incremental
    failuresCsv,   \* data_root/failures.csv: the tasks of its rows
    tasks,         \* run(): the task list
    queue,         \* indices of the tasks no pool thread has taken yet
    phase,         \* "idle" (no run yet), "running", "done" (run returned)
    runs,          \* runs started so far
    stats,         \* DownloadStats
    failures,      \* run(): the list of FailureRecords (their tasks)
    concurrency,   \* Downloader.concurrency: the pool's max_workers
    cancel,        \* Downloader._cancel (threading.Event)
    pauseEv,       \* Downloader._pause  (threading.Event; set = running)
    pc,            \* per pool thread: where it is in worker/_run_task
    cur,           \* per pool thread: index of its task (0: none)
    blocked,       \* per pool thread: waiting inside _pause.wait()
    loc,           \* per pool thread: locals of _run_task/_fetch_range
    executed,      \* per task: the _run_task calls made for it so far
    \* history, for stating properties
    last,          \* Spec: the task executed last and what it did
    prevFs,        \* fs when the current run started
    repeat,        \* the current run repeats the previous, clean, run
    runVer,        \* ver when the current run started
    completedAtPause, \* stats.completed when pause() took effect
    fetchesSincePause, \* source calls begun since pause() took effect
    writersAtCancel,   \* the threads inside merge_and_write when cancel() returned
    atCancel,          \* what the first cancel() call found (see CancelSnapshot)
    \* the components the downloader calls, each with a specification of its own
    yf,            \* YFinanceDataSource.fetch_ohlcv: the retry loop of the call in progress
    reload,        \* failures.csv as text, and what _load_failures made of it
    router,        \* SourceRouter and the fetches dispatched through it
    limiter,       \* RateLimiter and the threads inside wait()
    catalog,       \* CatalogService: the cache files and the last get_catalog call
    filt,          \* CatalogService._apply_filters: one application
    wr,            \* ParquetWriter: one merge_and_write call, step by step
    batch,         \* validate_batch: one call over a list of files
    split,         \* Downloader._fetch_range over the chunks of _split_range
    ring,          \* DownloadStats.recent_failures of a long run
    \* the tools beside them
    delta,         \* ParquetWriter._interval_delta: one call
    aw,            \* atomic_write_bytes: the directory of one path, its writers and a reader
    look           \* ParquetWriter.find_existing: one call over the names of a symbol directory

\* The library around the downloader's run loop
libVars == <<catalog, filt, wr, batch, split, ring>>

\* The tools beside the library
toolVars == <<delta, aw, look>>

\* The state outside the downloader proper
auxVars == <<yf, reload, router, limiter, libVars, toolVars>>

vars == <<fs, ver, mergeOn, failuresCsv, tasks, queue, phase, runs, stats,
          failures, concurrency, cancel, pauseEv, pc, cur, blocked, loc, executed,
          last, prevFs,
          repeat, runVer, completedAtPause, fetchesSincePause, writersAtCancel,
          atCancel, auxVars>>

poolVars == <<concurrency, cancel, pauseEv, pc, cur, blocked, loc, executed,
              completedAtPause, fetchesSincePause, writersAtCancel, atCancel>>

\* Most pool threads a Downloader of the model is built with.
MaxConcurrency == 2
Threads == 1..MaxConcurrency

\* DownloadStats(total=len(tasks))
NewStats(n) == [total |-> n, completed |-> 0, active |-> 0, failed |-> 0, skipped |-> 0]

NoLocals == [existing_path |-> NoPath, existing_start |-> 0, chunks |-> <<>>,
             frames |-> <<>>, rows |-> <<>>, output_path |-> NoPath,
             raised |-> FALSE]
NoLast == [idx |-> 0, status |-> "none", calls |-> 0, existing |-> NoPath,
           new_data |-> <<>>, output_path |-> NoPath, before |-> <<>>,
           skipped_before |-> 0, failed_before |-> 0, completed_before |-> 0]

\* The data files (paths and rows) of a file system
DataFiles(files) ==
    [p \in {q \in DOMAIN files : ~q.tmp} |-> files[p]]

EmptyFs == [p \in {} |-> File(<<>>, {}, FALSE)]

\* What a cancel() call finds: the threads past the check of line 166 and
\* about to record a failure (lines 180-189), failed, len(failures), and the
\* tasks no thread has taken.
CancelSnapshot(recorders, failed, nfailures, queued) ==
    [recorders |-> recorders, failed |-> failed, failures |-> nfailures,
     queue |-> queued]
NoCancel == CancelSnapshot({}, 0, 0, {})

\* No fetch_ohlcv call in progress
NoFetch == [rpc |-> "idle", task |-> 0, ex |-> NoPath, attempt |-> 0,
            script |-> <<>>, errors |-> 0, throttles |-> 0, result |-> "none"]
\* No failures.csv under consideration
NoReload == [step |-> "idle", origin |-> "none", records |-> <<>>, quotesCR |-> FALSE,
             strict |-> FALSE, via |-> "none", text |-> <<>>, error |-> "none",
             loaded |-> <<>>, executed |-> <<>>]
\* No router in use
NoRouter == [step |-> "idle", current |-> "None", tasks |-> <<>>, served |-> <<>>,
             sets |-> 0]
\* No rate limiter in use
NoLimiter == [step |-> "idle"]

\* No catalog service in use
NoCatalog == [step |-> "idle", config |-> <<>>, cache |-> <<>>, calls |-> 0,
              call |-> <<>>]
\* No filter applied
NoFilter == [step |-> "idle", items |-> <<>>, filters |-> <<>>, result |-> <<>>]
\* No write under way
NoWrite == [step |-> "idle", task |-> <<>>, linked |-> FALSE, files |-> <<>>,
            before |-> <<>>, output_path |-> <<>>, touched |-> {}, error |-> "none", failed |-> FALSE]
\* No batch validation under way
NoBatch == [step |-> "idle", files |-> <<>>, max_workers |-> <<>>, cpu |-> 0,
            workers |-> 0, pending |-> {}, running |-> {}, done |-> {}, completed |-> 0,
            summaries |-> <<>>, all_issues |-> <<>>, calls |-> <<>>]
\* No range being fetched
NoSplit == [step |-> "idle", task |-> <<>>, batch_days |-> 0, existing |-> <<>>,
            chunks |-> <<>>, requested |-> <<>>]
\* No failures displayed
NoRing == [step |-> "idle", total |-> 0, concurrency |-> 1, healthy |-> {},
           cancel |-> FALSE, taken |-> 0, pc |-> <<>>, cur |-> <<>>, stats |-> <<>>,
           failures |-> <<>>, seen |-> <<>>]

\* No interval under conversion
NoDelta == [step |-> "idle", interval |-> <<>>, result |-> <<>>]

\* No atomic write under way
NoAtomic == [names |-> <<>>, inodes |-> <<>>, writers |-> <<>>, reader |-> <<>>]

\* No find_existing call under way
NoLookup == [step |-> "idle", interval |-> <<>>, dir |-> {}, result |-> <<>>]

\* The tools, not exercised
ToolIdle ==
    /\ look = NoLookup
    /\ aw = NoAtomic
    /\ delta = NoDelta

\* The library, not exercised
LibIdle ==
    /\ catalog = NoCatalog
    /\ filt = NoFilter
    /\ wr = NoWrite
    /\ batch = NoBatch
    /\ split = NoSplit
    /\ ring = NoRing

\* The components a specification does not exercise stay as constructed
AuxIdle ==
    /\ yf = NoFetch
    /\ reload = NoReload
    /\ router = NoRouter
    /\ limiter = NoLimiter
    /\ LibIdle
    /\ ToolIdle

InitCommon ==
    /\ ver = 1
    /\ failuresCsv = <<>>
    /\ tasks = <<>>
    /\ queue = {}
    /\ phase = "idle"
    /\ runs = 0
    /\ stats = NewStats(0)
    /\ failures = <<>>
    /\ concurrency = 1
    /\ cancel = FALSE
    /\ pauseEv = TRUE
    /\ pc = [w \in Threads |-> "idle"]
    /\ cur = [w \in Threads |-> 0]
    /\ blocked = [w \in Threads |-> FALSE]
    /\ loc = [w \in Threads |-> NoLocals]
    /\ executed = <<>>
    /\ last = NoLast
    /\ repeat = FALSE
    /\ runVer = 1
    /\ completedAtPause = 0
    /\ fetchesSincePause = 0
    /\ writersAtCancel = {}
    /\ atCancel = NoCancel

\* ------------------------------------------------ Spec: concurrency = 1
Init ==
    /\ InitCommon
    /\ fs = EmptyFs
    /\ prevFs = EmptyFs
    /\ mergeOn \in BOOLEAN
    /\ AuxIdle

\* run(), lines 135-140, 196-197, with the tasks the driver built
BeginRun(newTasks) ==
    /\ phase \in {"idle", "done"}
    /\ runs' = runs + 1
    /\ tasks' = newTasks
    /\ stats' = NewStats(Len(newTasks))
    /\ failures' = <<>>
    /\ queue' = 1..Len(newTasks)
    /\ phase' = IF newTasks = <<>> THEN "done" ELSE "running"
    /\ prevFs' = fs
    /\ repeat' = (phase = "done" /\ newTasks = tasks /\ newTasks # <<>>
                  /\ stats.failed = 0 /\ runVer = ver)
    /\ runVer' = ver
    /\ last' = NoLast

\* A driver's download: build_tasks(symbols, intervals, start, end), run(tasks)
StartRun ==
    \E symbols \in SymbolLists, s \in Days, e \in Days :
        /\ s < e
        /\ runs < MaxRuns
        /\ BeginRun(BuildTasks(symbols, <<INTERVAL>>, s, e))
        /\ UNCHANGED <<fs, ver, mergeOn, failuresCsv, poolVars,
                   auxVars>>

\* (a variant: the writer is called whatever was fetched)
ReachesWriterAlways(new_data, cancelled) == TRUE
\* Whether _run_task goes on to the writer once _fetch_range is over
\* (lines 231-240 hold no check of _cancel)
ReachesWriter(new_data, cancelled) == new_data # <<>>

\* worker(task) from its first line to its last with nobody pausing or
\* cancelling: _run_task, the stats update, the failure record.
\* answer: what the source's fetch_ohlcv does: "rows" (the provider's
\* candles), "empty" (an empty frame) or "raised" (on the first chunk);
\* in Spec the provider answers every fetch.
RunTask(i, ex, answer) ==
    LET t == tasks[i]
        existing_max == IF ex = NoPath THEN NoMax ELSE ReadRangeMax(fs, ex)
        skipped == Skips(t, ex, existing_max)
        chunks == SplitRange(TaskStart(t, ex, existing_max), t.end)
        new_data == CombineFrames(IF answer = "rows"
                                  THEN ConcatChunks(t.sym, chunks, ver)
                                  ELSE <<>>)
        output_path == BuildPath(t.sym, ExistingStart(t, ex), t.end)
        readFails == MergeReadFails(fs, ex, mergeOn)
        raises == answer = "raised"
        failed == ~skipped /\ ((chunks # <<>> /\ raises)
                               \/ (new_data # <<>> /\ readFails))
        status == IF skipped THEN "skipped"
                  ELSE IF failed THEN "failed"
                  ELSE IF ~ReachesWriter(new_data, FALSE) THEN "empty" ELSE "ok"
        rows == MergedFrame(fs, ex, new_data, mergeOn)
    IN  /\ fs' = IF status = "ok"
                 THEN Rename(CloseTmp(OpenTmp(fs, TmpOf(output_path), 1, rows), 1),
                             TmpOf(output_path), output_path, ex)
                 ELSE fs
        /\ stats' = [stats EXCEPT
                        !.completed = @ + 1,
                        !.skipped = IF status = "skipped" THEN @ + 1 ELSE @,
                        !.failed = IF status = "failed" THEN @ + 1 ELSE @]
        /\ failures' = IF status = "failed" THEN Append(failures, t) ELSE failures
        /\ last' = [idx |-> i, status |-> status,
                    calls |-> IF skipped THEN 0
                              ELSE IF raises /\ chunks # <<>> THEN 1 ELSE Len(chunks),
                    existing |-> ex, new_data |-> new_data,
                    output_path |-> output_path, before |-> fs,
                    skipped_before |-> stats.skipped,
                    failed_before |-> stats.failed,
                    completed_before |-> stats.completed]

\* The pool's only thread takes the next task (any: run() shuffles them)
Work ==
    /\ phase = "running"
    /\ \E i \in queue :
        /\ queue' = queue \ {i}
        /\ \E ex \in FindExisting(fs, tasks[i].sym) : RunTask(i, ex, "rows")
    /\ UNCHANGED <<ver, mergeOn, failuresCsv, tasks, phase, runs, prevFs,
                   repeat, runVer, poolVars,
                   auxVars>>

\* A run that rewrites failures.csv whatever it recorded
WritesFailuresAlways(records) == TRUE

\* run(), line 208: `if failures:` guards the call of _write_failures
WritesFailures(records) == records # <<>>

\* run(), lines 208-210: all futures done; failures.csv written if any failed
Return ==
    /\ phase = "running"
    /\ queue = {}
    /\ \A w \in Threads : pc[w] = "idle"
    /\ phase' = "done"
    /\ failuresCsv' = IF WritesFailures(failures) THEN failures ELSE failuresCsv
    /\ UNCHANGED <<fs, ver, mergeOn, tasks, queue, runs, stats, failures,
                   last, prevFs, repeat, runVer, poolVars,
                   auxVars>>

\* The provider revises its history (an adjustment, a correction).
Revise ==
    /\ ver < MaxVer
    /\ ver' = ver + 1
    /\ UNCHANGED <<fs, mergeOn, failuresCsv, tasks, queue, phase, runs, stats,
                   failures, last, prevFs, repeat, runVer, poolVars,
                   auxVars>>

Next == StartRun \/ Work \/ Return \/ Revise

Spec == Init /\ [][Next]_vars


\* ------------------- HistorySpec: a download repeated once the provider
\* has published more candles
\* Runs of Downloader.run in one behaviour of HistorySpec.
HistoryMaxRuns == 1

\* A data_root the download of ("A", 1, MaxDay) left when the provider's
\* last candle was that of day 2 (the range of a download may end today or
\* later): the file named for the whole range holds the candles of days 1
\* and 2.  By now the provider has the later candles as well.
StaleFs ==
    LET out == BuildPath("A", 1, MaxDay)
        rows == MergedFrame(EmptyFs, NoPath, FetchOhlcv("A", 1, 2, 1), TRUE)
    IN  Rename(CloseTmp(OpenTmp(EmptyFs, TmpOf(out), 1, rows), 1), TmpOf(out), out, NoPath)

HistoryInit ==
    /\ InitCommon
    /\ prevFs = StaleFs
    /\ fs = prevFs
    /\ mergeOn \in BOOLEAN
    /\ AuxIdle

\* A driver's download: build_tasks(symbols, intervals, start, end), run(tasks)
HistoryStartRun ==
    \E symbols \in SymbolLists, s \in Days, e \in Days :
        /\ s < e
        /\ runs < HistoryMaxRuns
        /\ BeginRun(BuildTasks(symbols, <<INTERVAL>>, s, e))
        /\ UNCHANGED <<fs, ver, mergeOn, failuresCsv, poolVars,
                   auxVars>>

HistoryNext == HistoryStartRun \/ Work \/ Return

HistorySpec == HistoryInit /\ [][HistoryNext]_vars


\* ------------------------------------------- PoolSpec: the thread pool
\* Runs of Downloader.run in one behaviour of PoolSpec.
PoolMaxRuns == 1

\* A data_root an earlier download of ("A", 1, 2) at revision 1 left.
PriorFs ==
    LET out == BuildPath("A", 1, 2)
        rows == MergedFrame(EmptyFs, NoPath, FetchOhlcv("A", 1, 2, 1), TRUE)
    IN  Rename(CloseTmp(OpenTmp(EmptyFs, TmpOf(out), 1, rows), 1), TmpOf(out), out, NoPath)

PoolInit ==
    /\ InitCommon
    /\ mergeOn = TRUE
    /\ prevFs \in {EmptyFs, PriorFs}
    /\ fs = prevFs
    /\ AuxIdle

\* Downloader(...), build_tasks(...), run(tasks): a new Downloader per run,
\* its _cancel clear and its _pause set (lines 74-81).
PoolBegin(symbols, s, e, c) ==
        /\ s < e
        /\ runs < PoolMaxRuns
        /\ BeginRun(BuildTasks(symbols, <<INTERVAL>>, s, e))
        /\ concurrency' = c
        /\ cancel' = FALSE
        /\ pauseEv' = TRUE
        /\ completedAtPause' = 0
        /\ fetchesSincePause' = 0
        /\ writersAtCancel' = {}
        /\ atCancel' = NoCancel
        /\ executed' = [i \in DOMAIN tasks' |-> 0]
        /\ UNCHANGED <<fs, ver, mergeOn, failuresCsv, pc, cur, blocked, loc,
                   auxVars>>

PoolStartRun ==
    \E symbols \in SymbolLists, s \in Days, e \in Days, c \in 1..MaxConcurrency :
        PoolBegin(symbols, s, e, c)

Running(w) == phase = "running" /\ w <= concurrency

\* The thread is inside merge_and_write, at or after pq.write_table
InWriter(w) == pc[w] \in {"mw_open", "mw_close", "mw_rename"}

\* The thread goes to pc `to`, its other state as given
Goto(w, to) == pc' = [pc EXCEPT ![w] = to]

\* The thread's worker(task) call returns: the thread is free again
Free(w) ==
    /\ pc' = [pc EXCEPT ![w] = "idle"]
    /\ cur' = [cur EXCEPT ![w] = 0]
    /\ loc' = [loc EXCEPT ![w] = NoLocals]

\* A pool thread takes a queued task (run() shuffled them: any of them)
Take(w) ==
    /\ Running(w) /\ pc[w] = "idle"
    /\ \E i \in queue :
        /\ queue' = queue \ {i}
        /\ cur' = [cur EXCEPT ![w] = i]
    /\ Goto(w, "w_cancel1")
    /\ UNCHANGED <<fs, ver, mergeOn, failuresCsv, tasks, phase, runs, stats,
                   failures, concurrency, cancel, pauseEv, blocked, loc, last,
                   prevFs, repeat, runVer, completedAtPause,
                   fetchesSincePause, writersAtCancel, atCancel,
                   executed, auxVars>>

\* worker, lines 149-150, and lines 153-154
WorkerCancelCheck(w) ==
    /\ Running(w) /\ pc[w] \in {"w_cancel1", "w_cancel2"}
    /\ IF cancel THEN Free(w)
       ELSE /\ Goto(w, IF pc[w] = "w_cancel1" THEN "w_pause" ELSE "w_active")
            /\ UNCHANGED <<cur, loc>>
    /\ UNCHANGED <<fs, ver, mergeOn, failuresCsv, tasks, queue, phase, runs,
                   stats, failures, concurrency, cancel, pauseEv, blocked, last,
                   prevFs, repeat, runVer, completedAtPause,
                   fetchesSincePause, writersAtCancel, atCancel,
                   executed, auxVars>>

\* Where a thread goes on after self._pause.wait() returns
AfterWait(at) ==
    IF at = "w_pause" THEN "w_cancel2"
    ELSE IF at = "rt_pause" THEN "rt_cancel2" ELSE "fr_cancel2"

\* (a variant: a wait that never blocks)
WaitReturnsAlways(flag) == TRUE
\* threading.Event.wait returns at once if the flag is set
WaitReturns(flag) == flag

\* threading.Event.wait: returns at once if the flag is set, else the
\* thread waits on the event's condition until a set() notifies it.
PauseWait(w) ==
    /\ Running(w) /\ pc[w] \in {"w_pause", "rt_pause", "fr_pause"}
    /\ ~blocked[w]
    /\ IF WaitReturns(pauseEv)
       THEN Goto(w, AfterWait(pc[w])) /\ UNCHANGED blocked
       ELSE blocked' = [blocked EXCEPT ![w] = TRUE] /\ UNCHANGED pc
    /\ UNCHANGED <<fs, ver, mergeOn, failuresCsv, tasks, queue, phase, runs,
                   stats, failures, concurrency, cancel, pauseEv, cur, loc, last,
                   prevFs, repeat, runVer, completedAtPause,
                   fetchesSincePause, writersAtCancel, atCancel,
                   executed, auxVars>>

\* (a variant: a set() that sets the flag and notifies nobody)
EventSetSilent ==
    /\ pauseEv' = TRUE
    /\ UNCHANGED <<blocked, pc>>

\* threading.Event.set: the flag is set and every waiting thread is
\* notified; a notified thread's wait() returns whatever the flag is then.
EventSet ==
    /\ pauseEv' = TRUE
    /\ blocked' = [w \in Threads |-> FALSE]
    /\ pc' = [w \in Threads |-> IF blocked[w] THEN AfterWait(pc[w]) ELSE pc[w]]

\* worker, lines 157-159
WorkerActive(w) ==
    /\ Running(w) /\ pc[w] = "w_active"
    /\ stats' = [stats EXCEPT !.active = @ + 1]
    /\ executed' = [executed EXCEPT ![cur[w]] = @ + 1]
    /\ Goto(w, "rt_cancel1")
    /\ UNCHANGED <<fs, ver, mergeOn, failuresCsv, tasks, queue, phase, runs,
                   failures, concurrency, cancel, pauseEv, cur, blocked, loc, last,
                   prevFs, repeat, runVer, completedAtPause,
                   fetchesSincePause, writersAtCancel, atCancel,
                   auxVars>>

\* _run_task, lines 213-214 and 216-217: return "cancelled"
RunTaskCancelCheck(w) ==
    /\ Running(w) /\ pc[w] \in {"rt_cancel1", "rt_cancel2"}
    /\ Goto(w, IF cancel THEN "w_finally"
               ELSE IF pc[w] = "rt_cancel1" THEN "rt_pause" ELSE "rt_find")
    /\ UNCHANGED <<fs, ver, mergeOn, failuresCsv, tasks, queue, phase, runs,
                   stats, failures, concurrency, cancel, pauseEv, cur, blocked,
                   loc, last, prevFs, repeat, runVer, completedAtPause,
                   fetchesSincePause, writersAtCancel, atCancel,
                   executed, auxVars>>

\* _run_task, lines 218-229, and _fetch_range, line 244
RunTaskFind(w) ==
    /\ Running(w) /\ pc[w] = "rt_find"
    /\ \E ex \in FindExisting(fs, tasks[cur[w]].sym) :
        LET t == tasks[cur[w]]
            existing_max == IF ex = NoPath THEN NoMax ELSE ReadRangeMax(fs, ex)
        IN  IF Skips(t, ex, existing_max)
            THEN Goto(w, "w_skipped") /\ UNCHANGED loc
            ELSE /\ Goto(w, "fr_cancel1")
                 /\ loc' = [loc EXCEPT ![w] =
                        [existing_path |-> ex,
                         existing_start |-> ExistingStart(t, ex),
                         chunks |-> SplitRange(TaskStart(t, ex, existing_max), t.end),
                         frames |-> <<>>, rows |-> <<>>, output_path |-> NoPath,
                         raised |-> FALSE]]
    /\ UNCHANGED <<fs, ver, mergeOn, failuresCsv, tasks, queue, phase, runs,
                   stats, failures, concurrency, cancel, pauseEv, cur, blocked,
                   last, prevFs, repeat, runVer, completedAtPause,
                   fetchesSincePause, writersAtCancel, atCancel,
                   executed, auxVars>>

\* _fetch_range, the loop head and lines 247-248, and lines 250-251
FetchCancelCheck(w) ==
    /\ Running(w) /\ pc[w] \in {"fr_cancel1", "fr_cancel2"}
    /\ Goto(w, IF loc[w].chunks = <<>> \/ cancel THEN "fr_done"
               ELSE IF pc[w] = "fr_cancel1" THEN "fr_pause" ELSE "fr_fetch")
    /\ UNCHANGED <<fs, ver, mergeOn, failuresCsv, tasks, queue, phase, runs,
                   stats, failures, concurrency, cancel, pauseEv, cur, blocked,
                   loc, last, prevFs, repeat, runVer, completedAtPause,
                   fetchesSincePause, writersAtCancel, atCancel,
                   executed, auxVars>>

\* (a variant: a _fetch_range that catches what the source raises and goes
\* on to combine the frames it has)
RaisedToCombine == "fr_done"
\* An exception of source.fetch_ohlcv (line 252) leaves _fetch_range and
\* _run_task (line 230), neither of which catches it, for the handler of
\* worker (line 165).
RaisedTo == "w_except"

\* _fetch_range, lines 252-256: the source answers or raises
Fetch(w) ==
    /\ Running(w) /\ pc[w] = "fr_fetch"
    /\ \E raises \in BOOLEAN :
        IF raises
        THEN Goto(w, RaisedTo) /\ loc' = [loc EXCEPT ![w].raised = TRUE]
        ELSE /\ Goto(w, "fr_cancel1")
             /\ loc' = [loc EXCEPT
                    ![w].frames = @ \o FetchOhlcv(tasks[cur[w]].sym,
                                                  loc[w].chunks[1][1],
                                                  loc[w].chunks[1][2], ver),
                    ![w].chunks = Tail(@)]
    /\ fetchesSincePause' = IF pauseEv THEN fetchesSincePause
                             ELSE fetchesSincePause + 1
    /\ UNCHANGED <<fs, ver, mergeOn, failuresCsv, tasks, queue, phase, runs,
                   stats, failures, concurrency, cancel, pauseEv, cur, blocked,
                   last, prevFs, repeat, runVer, completedAtPause, writersAtCancel, atCancel,
                   executed, auxVars>>

\* _fetch_range, lines 257-260; _run_task, lines 231-239; merge_and_write,
\* lines 124-177: the frame to write, or "empty", or read_parquet raises
FetchDone(w) ==
    /\ Running(w) /\ pc[w] = "fr_done"
    /\ LET t == tasks[cur[w]]
           new_data == CombineFrames(loc[w].frames)
       IN  IF ~ReachesWriter(new_data, cancel)
           THEN Goto(w, "w_finally") /\ UNCHANGED loc
           ELSE IF MergeReadFails(fs, loc[w].existing_path, mergeOn)
           THEN Goto(w, "w_except") /\ UNCHANGED loc
           ELSE /\ Goto(w, "mw_open")
                /\ loc' = [loc EXCEPT
                       ![w].rows = MergedFrame(fs, loc[w].existing_path,
                                               new_data, mergeOn),
                       ![w].output_path =
                           BuildPath(t.sym, loc[w].existing_start, t.end)]
    /\ UNCHANGED <<fs, ver, mergeOn, failuresCsv, tasks, queue, phase, runs,
                   stats, failures, concurrency, cancel, pauseEv, cur, blocked,
                   last, prevFs, repeat, runVer, completedAtPause,
                   fetchesSincePause, writersAtCancel, atCancel,
                   executed, auxVars>>

\* merge_and_write, line 179: pq.write_table opens tmp ...
WriteOpen(w) ==
    /\ Running(w) /\ pc[w] = "mw_open"
    /\ fs' = OpenTmp(fs, TmpOf(loc[w].output_path), w, loc[w].rows)
    /\ Goto(w, "mw_close")
    /\ UNCHANGED <<ver, mergeOn, failuresCsv, tasks, queue, phase, runs,
                   stats, failures, concurrency, cancel, pauseEv, cur, blocked,
                   loc, last, prevFs, repeat, runVer, completedAtPause,
                   fetchesSincePause, writersAtCancel, atCancel,
                   executed, auxVars>>

\* ... and returns once the table is written
WriteClose(w) ==
    /\ Running(w) /\ pc[w] = "mw_close"
    /\ fs' = CloseTmp(fs, w)
    /\ Goto(w, "mw_rename")
    /\ UNCHANGED <<ver, mergeOn, failuresCsv, tasks, queue, phase, runs,
                   stats, failures, concurrency, cancel, pauseEv, cur, blocked,
                   loc, last, prevFs, repeat, runVer, completedAtPause,
                   fetchesSincePause, writersAtCancel, atCancel,
                   executed, auxVars>>

\* merge_and_write, line 180: tmp.replace(output_path); FileNotFoundError
\* if tmp is gone
WriteRename(w) ==
    /\ Running(w) /\ pc[w] = "mw_rename"
    /\ LET out == loc[w].output_path
       IN  IF TmpOf(out) \in DOMAIN fs
           THEN /\ fs' = Rename(fs, TmpOf(out), out, loc[w].existing_path)
                /\ Goto(w, "w_finally")
           ELSE /\ fs' = fs
                /\ Goto(w, "w_except")
    /\ UNCHANGED <<ver, mergeOn, failuresCsv, tasks, queue, phase, runs,
                   stats, failures, concurrency, cancel, pauseEv, cur, blocked,
                   loc, last, prevFs, repeat, runVer, completedAtPause,
                   fetchesSincePause, writersAtCancel, atCancel,
                   executed, auxVars>>

\* worker, lines 162-164
WorkerSkipped(w) ==
    /\ Running(w) /\ pc[w] = "w_skipped"
    /\ stats' = [stats EXCEPT !.skipped = @ + 1]
    /\ Goto(w, "w_finally")
    /\ UNCHANGED <<fs, ver, mergeOn, failuresCsv, tasks, queue, phase, runs,
                   failures, concurrency, cancel, pauseEv, cur, blocked, loc, last,
                   prevFs, repeat, runVer, completedAtPause,
                   fetchesSincePause, writersAtCancel, atCancel,
                   executed, auxVars>>

\* (a variant: a handler that records whatever _cancel is)
HandlerRecordsAlways(cancelled) == TRUE
\* worker, lines 166-167: the handler returns if _cancel is set
HandlerRecords(cancelled) == ~cancelled

\* worker, lines 165-167: the exception handler's check of _cancel
WorkerExcept(w) ==
    /\ Running(w) /\ pc[w] = "w_except"
    /\ Goto(w, IF HandlerRecords(cancel) THEN "w_record" ELSE "w_finally")
    /\ UNCHANGED <<fs, ver, mergeOn, failuresCsv, tasks, queue, phase, runs,
                   stats, failures, concurrency, cancel, pauseEv, cur, blocked,
                   loc, last, prevFs, repeat, runVer, completedAtPause,
                   fetchesSincePause, writersAtCancel, atCancel,
                   executed, auxVars>>

\* worker, lines 180-189: under the lock, failed += 1 and the FailureRecord
WorkerRecord(w) ==
    /\ Running(w) /\ pc[w] = "w_record"
    /\ stats' = [stats EXCEPT !.failed = @ + 1]
    /\ failures' = Append(failures, tasks[cur[w]])
    /\ Goto(w, "w_finally")
    /\ UNCHANGED <<fs, ver, mergeOn, failuresCsv, tasks, queue, phase, runs,
                   concurrency, cancel, pauseEv, cur, blocked, loc, last,
                   prevFs, repeat, runVer, completedAtPause,
                   fetchesSincePause, writersAtCancel, atCancel,
                   executed, auxVars>>

\* (a variant: a finally clause that counts the task and keeps it active)
FinishedStillActive(s) == [s EXCEPT !.completed = @ + 1]
\* worker, lines 192-193: the task is no longer active, and is completed
Finished(s) == [s EXCEPT !.active = @ - 1, !.completed = @ + 1]

\* worker, lines 190-194
WorkerFinally(w) ==
    /\ Running(w) /\ pc[w] = "w_finally"
    /\ stats' = Finished(stats)
    /\ Free(w)
    /\ UNCHANGED <<fs, ver, mergeOn, failuresCsv, tasks, queue, phase, runs,
                   failures, concurrency, cancel, pauseEv, blocked, last,
                   prevFs, repeat, runVer, completedAtPause,
                   fetchesSincePause, writersAtCancel, atCancel,
                   executed, auxVars>>

\* Downloader.pause
Pause ==
    /\ phase = "running"
    /\ pauseEv' = FALSE
    /\ completedAtPause' = IF pauseEv THEN stats.completed ELSE completedAtPause
    /\ fetchesSincePause' = IF pauseEv THEN 0 ELSE fetchesSincePause
    /\ UNCHANGED <<fs, ver, mergeOn, failuresCsv, tasks, queue, phase, runs,
                   stats, failures, concurrency, cancel, pc, cur, blocked, loc,
                   last, prevFs, repeat, runVer, writersAtCancel, atCancel,
                   executed, auxVars>>

\* Downloader.resume
Resume ==
    /\ phase = "running"
    /\ EventSet
    /\ UNCHANGED <<fs, ver, mergeOn, failuresCsv, tasks, queue, phase, runs,
                   stats, failures, concurrency, cancel, cur, loc, last, prevFs,
                   repeat, runVer, completedAtPause,
                   fetchesSincePause, writersAtCancel, atCancel,
                   executed, auxVars>>

\* Downloader.cancel
Cancel ==
    /\ phase = "running"
    /\ cancel' = TRUE
    /\ EventSet
    /\ writersAtCancel' = IF cancel THEN writersAtCancel
                           ELSE {w \in Threads : InWriter(w)}
    /\ atCancel' = IF cancel THEN atCancel
                    ELSE CancelSnapshot({w \in Threads : pc[w] = "w_record"},
                                        stats.failed, Len(failures), queue)
    /\ UNCHANGED <<fs, ver, mergeOn, failuresCsv, tasks, queue, phase, runs,
                   stats, failures, concurrency, cur, loc, last, prevFs,
                   repeat, runVer, completedAtPause, fetchesSincePause,
                   executed, auxVars>>

Step(w) ==
    \/ Take(w) \/ WorkerCancelCheck(w) \/ PauseWait(w) \/ WorkerActive(w)
    \/ RunTaskCancelCheck(w) \/ RunTaskFind(w) \/ FetchCancelCheck(w)
    \/ Fetch(w) \/ FetchDone(w) \/ WriteOpen(w) \/ WriteClose(w)
    \/ WriteRename(w) \/ WorkerSkipped(w) \/ WorkerExcept(w)
    \/ WorkerRecord(w) \/ WorkerFinally(w)

Workers == \E w \in Threads : Step(w)

PoolNext == PoolStartRun \/ Workers \/ Return \/ Pause \/ Resume \/ Cancel

PoolSpec == PoolInit /\ [][PoolNext]_vars

\* Threads are scheduled and run() returns once they are done; nobody has
\* to call pause, resume or cancel.
PoolFairSpec ==
    PoolSpec /\ (\A w \in Threads : WF_vars(Step(w))) /\ WF_vars(Return)

\* ------------------- PoolLiveSpec: a run nobody cancels, paused and resumed
\* One run over a data_root that holds the file of ("A", 1, 2): the tasks
\* start at day 1 and end with that file (a task of "A" is skipped) or at
\* the last day (a task of "B" has two chunks).  cancel() is never called;
\* pause() and resume() are called at any time.
LiveEnds == {2, MaxDay}

LiveInit ==
    /\ InitCommon
    /\ mergeOn = TRUE
    /\ prevFs = PriorFs
    /\ fs = prevFs
    /\ AuxIdle

LiveStartRun ==
    \E symbols \in SymbolLists, e \in LiveEnds, c \in 1..MaxConcurrency :
        PoolBegin(symbols, 1, e, c)

\* Downloader.resume, called while the run is paused
ResumePaused == ~pauseEv /\ Resume

PoolLiveNext == LiveStartRun \/ Workers \/ Return \/ Pause \/ Resume

\* Threads are scheduled, every call of the source returns or raises (a
\* thread's every step is taken), run() returns once the threads are done,
\* and a pause() is followed by a resume().
PoolLiveSpec ==
    /\ LiveInit /\ [][PoolLiveNext]_vars
    /\ \A w \in Threads : WF_vars(Step(w))
    /\ WF_vars(Return)
    /\ WF_vars(ResumePaused)

\* ------------------------ RetrySpec: the retry loop of the yfinance source
\* A Downloader with concurrency = 1 over YFinanceDataSource: every task is
\* one chunk, and the provider answers each request of a fetch_ohlcv call
\* as a script says.

\* config.download.max_retries
MaxRetries == 2
\* Runs of Downloader.run in one behaviour of RetrySpec.
RetryMaxRuns == 2

\* What one request brings: candles, an empty frame, a transient error
\* (connection error, timeout) or a throttling error (HTTP 429).
Responses == {"rows", "empty", "error", "throttle"}
\* The provider's answers to the successive requests of one call
Scripts == [1..(MaxRetries + 1) -> Responses]

\* One pass of `for attempt in range(max_retries + 1)` (lines 62-246) whose
\* request brings resp: the call's result ("none": the loop goes on) and the
\* next value of attempt.  A pass that ends in `continue` (line 241) or at
\* the end of the except block (line 246) takes the next value of the
\* range; when there is none, line 247 returns an empty frame.
YfPass(attempt, resp) ==
    CASE resp = "rows"  -> [result |-> "rows", attempt |-> attempt]
      [] resp = "empty" -> [result |-> "empty", attempt |-> attempt]
      [] resp = "throttle" ->
            [result |-> IF attempt + 1 <= MaxRetries THEN "none" ELSE "empty",
             attempt |-> attempt + 1]
      [] resp = "error" ->
            IF attempt >= MaxRetries
            THEN [result |-> "raised", attempt |-> attempt]
            ELSE [result |-> "none", attempt |-> attempt + 1]

RetryInit ==
    /\ InitCommon
    /\ fs = EmptyFs
    /\ prevFs = EmptyFs
    /\ mergeOn = TRUE
    /\ AuxIdle

\* build_tasks(symbols, ["1d"], day 1, day 2), run(tasks)
RetryStartRun ==
    \E symbols \in SymbolLists :
        /\ runs < RetryMaxRuns
        /\ yf.rpc # "try"
        /\ BeginRun(BuildTasks(symbols, <<INTERVAL>>, 1, 2))
        /\ yf' = NoFetch
        /\ UNCHANGED <<fs, ver, mergeOn, failuresCsv, poolVars, reload, router,
                       limiter, libVars, toolVars>>

\* worker(task) up to the source call: a task that is skipped, or has
\* nothing to fetch, is over at once; else fetch_ohlcv is entered.
RetryTake ==
    /\ phase = "running" /\ yf.rpc # "try"
    /\ \E i \in queue : \E ex \in FindExisting(fs, tasks[i].sym) :
        LET t == tasks[i]
            existing_max == IF ex = NoPath THEN NoMax ELSE ReadRangeMax(fs, ex)
            chunks == SplitRange(TaskStart(t, ex, existing_max), t.end)
        IN  /\ queue' = queue \ {i}
            /\ IF Skips(t, ex, existing_max) \/ chunks = <<>>
               THEN /\ RunTask(i, ex, "rows")
                    /\ yf' = NoFetch
               ELSE /\ \E script \in Scripts :
                        yf' = [rpc |-> "try", task |-> i, ex |-> ex,
                               attempt |-> 0, script |-> script, errors |-> 0,
                               throttles |-> 0, result |-> "none"]
                    /\ UNCHANGED <<fs, stats, failures, last>>
    /\ UNCHANGED <<ver, mergeOn, failuresCsv, tasks, phase, runs, prevFs,
                   repeat, runVer, poolVars, reload, router, limiter, libVars, toolVars>>

\* fetch_ohlcv, one pass of the loop
YfAttempt ==
    /\ yf.rpc = "try" /\ yf.result = "none"
    /\ LET resp == yf.script[yf.attempt + 1]
           r == YfPass(yf.attempt, resp)
       IN  yf' = [yf EXCEPT !.attempt = r.attempt, !.result = r.result,
                            !.errors = IF resp = "error" THEN @ + 1 ELSE @,
                            !.throttles = IF resp = "throttle" THEN @ + 1 ELSE @]
    /\ UNCHANGED <<fs, ver, mergeOn, failuresCsv, tasks, queue, phase, runs,
                   stats, failures, last, prevFs, repeat, runVer, poolVars,
                   reload, router, limiter, libVars, toolVars>>

\* fetch_ohlcv returns or raises: the rest of _run_task and of worker
YfReturn ==
    /\ yf.rpc = "try" /\ yf.result # "none"
    /\ RunTask(yf.task, yf.ex, yf.result)
    /\ yf' = [yf EXCEPT !.rpc = "done"]
    /\ UNCHANGED <<ver, mergeOn, failuresCsv, tasks, queue, phase, runs, prevFs,
                   repeat, runVer, poolVars, reload, router, limiter, libVars, toolVars>>

\* run() returns
RetryReturn == yf.rpc # "try" /\ Return

RetryNext == RetryStartRun \/ RetryTake \/ YfAttempt \/ YfReturn \/ RetryReturn

RetrySpec == RetryInit /\ [][RetryNext]_vars


\* ------------------------------- ReloadSpec: failures.csv, written and reloaded
\* A text is a sequence of characters.  The four characters the csv module
\* treats specially are themselves; a run of other characters that is
\* written and read as a whole (a symbol, a date, a column name, the letter
\* "a" of a reason) is one element.
COMMA == ","
QUOTE == "\""
LF == "\n"
CR == "\r"
ReasonChars == {"a", COMMA, QUOTE, LF, CR}

\* Length of an exception's message, and number of failures of a run
MaxReasonLen == 3
MaxRecords == 2

\* _write_failures, fieldnames
FIELDNAMES == <<"symbol", "interval", "start", "end", "asset_type", "adjust", "reason">>

\* str(datetime.date()) of day d
DateStr(d) == "2024-01-0" \o ToString(d)

\* csv.writer, QUOTE_MINIMAL with lineterminator "\n": a field is quoted when
\* it holds the delimiter, the quote character or a character of the
\* lineterminator; whether a carriage return is quoted as well depends on
\* the version of the csv module (quotesCR).
NeedsQuotes(field, quotesCR) ==
    \E k \in DOMAIN field :
        field[k] \in {COMMA, QUOTE, LF} \cup (IF quotesCR THEN {CR} ELSE {})

RECURSIVE DoubleQuotes(_)
DoubleQuotes(field) ==
    IF field = <<>> THEN <<>>
    ELSE (IF Head(field) = QUOTE THEN <<QUOTE, QUOTE>> ELSE <<Head(field)>>)
         \o DoubleQuotes(Tail(field))

WriteField(field, quotesCR) ==
    IF NeedsQuotes(field, quotesCR)
    THEN <<QUOTE>> \o DoubleQuotes(field) \o <<QUOTE>>
    ELSE field

\* writer.writerow: the fields joined by commas, then the lineterminator
RECURSIVE WriteRow(_, _)
WriteRow(fields, quotesCR) ==
    IF Len(fields) = 1 THEN WriteField(fields[1], quotesCR) \o <<LF>>
    ELSE WriteField(Head(fields), quotesCR) \o <<COMMA>> \o WriteRow(Tail(fields), quotesCR)

RECURSIVE WriteRows(_, _)
WriteRows(rows, quotesCR) ==
    IF rows = <<>> THEN <<>>
    ELSE WriteRow(Head(rows), quotesCR) \o WriteRows(Tail(rows), quotesCR)

\* The row _write_failures makes of a FailureRecord
FailureRow(failure) ==
    LET t == failure.task
    IN  <<(<<t.symbol>>), (<<t.interval>>), (<<DateStr(t.start)>>), (<<DateStr(t.end)>>),
          (<<t.asset_type>>), (<<t.adjust>>), failure.reason>>

\* A csv file of the seven columns: writeheader, then one writerow per row
CsvText(rows, quotesCR) ==
    WriteRows(<<[k \in DOMAIN FIELDNAMES |-> <<FIELDNAMES[k]>>]>> \o rows, quotesCR)

\* _write_failures(path, failures): the text of failures.csv
WriteFailures(records, quotesCR) ==
    CsvText([k \in DOMAIN records |-> FailureRow(records[k])], quotesCR)

\* path.open("r"): universal newlines, "\r\n" and "\r" are read as "\n"
RECURSIVE UniversalNewlines(_)
UniversalNewlines(text) ==
    IF text = <<>> THEN <<>>
    ELSE IF Head(text) = CR
         THEN <<LF>> \o UniversalNewlines(IF Len(text) > 1 /\ text[2] = LF
                                          THEN Tail(Tail(text)) ELSE Tail(text))
         ELSE <<Head(text)>> \o UniversalNewlines(Tail(text))

\* csv.reader (excel dialect, not strict): the rows of a text, each a
\* sequence of fields.  state is the parser's state, field and row what has
\* been read of the current field and record.
RECURSIVE CsvRead(_, _, _, _, _)
CsvRead(text, state, field, row, rows) ==
    IF text = <<>>
    THEN IF state = "start_record" THEN rows ELSE Append(rows, Append(row, field))
    ELSE
      LET c == Head(text)
          rest == Tail(text)
          EndRecord == CsvRead(rest, "start_record", <<>>, <<>>, Append(rows, Append(row, field)))
          EndField == CsvRead(rest, "start_field", <<>>, Append(row, field), rows)
      IN  CASE state = "start_record" ->
                 IF c = LF THEN CsvRead(rest, "start_record", <<>>, <<>>, Append(rows, <<>>))
                 ELSE IF c = QUOTE THEN CsvRead(rest, "in_quoted", <<>>, row, rows)
                 ELSE IF c = COMMA THEN EndField
                 ELSE CsvRead(rest, "in_field", <<c>>, row, rows)
            [] state = "start_field" ->
                 IF c = LF THEN EndRecord
                 ELSE IF c = QUOTE THEN CsvRead(rest, "in_quoted", <<>>, row, rows)
                 ELSE IF c = COMMA THEN EndField
                 ELSE CsvRead(rest, "in_field", <<c>>, row, rows)
            [] state = "in_field" ->
                 IF c = LF THEN EndRecord
                 ELSE IF c = COMMA THEN EndField
                 ELSE CsvRead(rest, "in_field", Append(field, c), row, rows)
            [] state = "in_quoted" ->
                 IF c = QUOTE THEN CsvRead(rest, "quote_in_quoted", field, row, rows)
                 ELSE CsvRead(rest, "in_quoted", Append(field, c), row, rows)
            [] state = "quote_in_quoted" ->
                 IF c = QUOTE THEN CsvRead(rest, "in_quoted", Append(field, QUOTE), row, rows)
                 ELSE IF c = COMMA THEN EndField
                 ELSE IF c = LF THEN EndRecord
                 ELSE CsvRead(rest, "in_field", Append(field, c), row, rows)

\* Python's None, where a field is expected
None == <<"None">>

\* csv.DictReader: the first row names the columns, an empty row is passed
\* over, a short row is filled with None (restval).
DictRow(names, row) ==
    [name \in {names[k] : k \in DOMAIN names} |->
        LET k == CHOOSE j \in DOMAIN names : names[j] = name
        IN  IF k <= Len(row) THEN row[k] ELSE None]

DictReader(text) ==
    LET rows == CsvRead(UniversalNewlines(text), "start_record", <<>>, <<>>, <<>>)
        body == SelectSeq(Tail(rows), LAMBDA r : r # <<>>)
    IN  IF rows = <<>> THEN <<>>
        ELSE [k \in DOMAIN body |-> DictRow(rows[1], body[k])]

\* row.get(key, default)
Get(row, key, default) == IF <<key>> \in DOMAIN row THEN row[<<key>>] ELSE default

\* str.strip() (of the characters of a text, the line ends are whitespace)
RECURSIVE LStrip(_)
LStrip(field) ==
    IF field # <<>> /\ Head(field) \in {LF, CR} THEN LStrip(Tail(field)) ELSE field

RECURSIVE RStrip(_)
RStrip(field) ==
    IF field # <<>> /\ field[Len(field)] \in {LF, CR}
    THEN RStrip(SubSeq(field, 1, Len(field) - 1)) ELSE field

Strip(field) == RStrip(LStrip(field))

\* parse_date (datetime.fromisoformat) succeeds on str
IsDate(str) == Len(str) = 1 /\ \E d \in Days : DateStr(d) = str[1]
ParseDate(str) == CHOOSE d \in Days : DateStr(d) = str[1]

\* beijing_now() - 365 days and beijing_now(), for a row without dates
DefaultStart == 0
DefaultEnd == MaxDay

\* _load_failures, the body of `for row in reader`: the exception it raises
\* ("none": the row becomes a task)
LoadRowError(row) ==
    IF Get(row, "start", <<>>) = None \/ Get(row, "end", <<>>) = None
        THEN "AttributeError"
    ELSE IF \E key \in {"start", "end"} :
                /\ Strip(Get(row, key, <<>>)) # <<>>
                /\ ~IsDate(Strip(Get(row, key, <<>>)))
        THEN "ValueError"
    ELSE IF <<"symbol">> \notin DOMAIN row \/ <<"interval">> \notin DOMAIN row
        THEN "KeyError"
    ELSE "none"

\* The DownloadTask _load_failures makes of a row
LoadRowTask(row) ==
    LET start_str == Strip(Get(row, "start", <<>>))
        end_str == Strip(Get(row, "end", <<>>))
    IN  [symbol |-> row[<<"symbol">>],
         interval |-> row[<<"interval">>],
         start |-> IF start_str # <<>> THEN ParseDate(start_str) ELSE DefaultStart,
         end |-> IF end_str # <<>> THEN ParseDate(end_str) ELSE DefaultEnd,
         asset_type |-> Get(row, "asset_type", <<"stock">>),
         adjust |-> Get(row, "adjust", <<"auto">>)]

\* _load_failures(path) on a file that exists: the exception of the first
\* row that raises, or one task per row
LoadFailures(text) ==
    LET rows == DictReader(text)
        bad == {k \in DOMAIN rows : LoadRowError(rows[k]) # "none"}
    IN  IF bad # {}
        THEN [error |-> LoadRowError(rows[CHOOSE k \in bad : \A j \in bad : k <= j]),
              tasks |-> <<>>]
        ELSE [error |-> "none", tasks |-> [k \in DOMAIN rows |-> LoadRowTask(rows[k])]]

\* FailureRecordModel.model_validate(row) succeeds
ADJUSTS == {"auto", "back", "forward", "none", "front", "backward"}
RowValid(row) ==
    /\ \A key \in {"symbol", "interval"} :
          /\ <<key>> \in DOMAIN row /\ row[<<key>>] # None
          /\ Strip(row[<<key>>]) # <<>>
    /\ Get(row, "adjust", <<"auto">>) # None
    /\ LET adjust == Strip(Get(row, "adjust", <<"auto">>))
       IN  adjust = <<>> \/ (Len(adjust) = 1 /\ adjust[1] \in ADJUSTS)

\* validate_failure_rows, one row that passed the model: the dates it gets
\* and whether a strict validation stops at it
ValidatedDates(row) ==
    LET startv == Get(row, "start", None)
        endv == Get(row, "end", None)
        start_str == IF startv = None THEN <<>> ELSE Strip(startv)
        end_str == IF endv = None THEN <<>> ELSE Strip(endv)
        badDate == \/ start_str # <<>> /\ ~IsDate(start_str)
                   \/ end_str # <<>> /\ ~IsDate(end_str)
        task_start == IF start_str # <<>> /\ IsDate(start_str)
                      THEN ParseDate(start_str) ELSE DefaultStart
        task_end == IF end_str # <<>> /\ IsDate(end_str)
                    THEN ParseDate(end_str) ELSE DefaultEnd
    IN  [stops |-> badDate \/ task_start > task_end,
         start |-> IF task_start > task_end THEN DefaultStart ELSE task_start,
         end |-> IF task_start > task_end THEN DefaultEnd ELSE task_end]

\* validate_failure_rows(rows, strict): ValidationFailureRecordError at the
\* first row a strict validation stops at, else the tasks of the rows that
\* pass the model
ValidateFailureRows(rows, strict) ==
    LET stops == {k \in DOMAIN rows : ~RowValid(rows[k]) \/ ValidatedDates(rows[k]).stops}
        valid == SelectSeq(rows, RowValid)
    IN  IF strict /\ stops # {}
        THEN [error |-> "ValidationFailureRecordError", tasks |-> <<>>]
        ELSE [error |-> "none",
              tasks |-> [k \in DOMAIN valid |->
                           [symbol |-> Strip(valid[k][<<"symbol">>]),
                            interval |-> Strip(valid[k][<<"interval">>]),
                            start |-> ValidatedDates(valid[k]).start,
                            end |-> ValidatedDates(valid[k]).end,
                            asset_type |-> Get(valid[k], "asset_type", <<"stock">>),
                            adjust |-> IF Strip(Get(valid[k], "adjust", <<"auto">>)) = <<>>
                                       THEN <<"auto">>
                                       ELSE Strip(Get(valid[k], "adjust", <<"auto">>))]]]

\* The messages an exception may carry: str(exc), any text
RECURSIVE Texts(_)
Texts(n) == IF n = 0 THEN {<<>>} ELSE Texts(n - 1) \cup {Append(t, c) : t \in Texts(n - 1), c \in ReasonChars}

\* _format_failure_reason(exc): the name of the exception's type, then its
\* stripped message if there is any (no message here begins with the name)
FormatFailureReason(msg) ==
    IF Strip(msg) = <<>> THEN <<"ValueError">> ELSE <<"ValueError", ": ">> \o Strip(msg)

\* The tasks of a batch over two markets
FailedTasks ==
    {[symbol |-> "A", interval |-> INTERVAL, start |-> 1, end |-> 2,
      asset_type |-> "stock", adjust |-> "auto"],
     [symbol |-> "B", interval |-> INTERVAL, start |-> 1, end |-> 2,
      asset_type |-> "ashare", adjust |-> "back"]}

\* The FailureRecords a run may return
FailureRecords ==
    [task : FailedTasks,
     reason : {FormatFailureReason(msg) : msg \in Texts(MaxReasonLen)}]

\* Rows of a failures.csv that no run wrote: a symbol that may be missing, a
\* start that may be no date or lie after the end, an adjust out of range
ForeignRows ==
    {<<symbol, (<<INTERVAL>>), start, (<<DateStr(2)>>), (<<"stock">>), adjust, (<<"a">>)>> :
        symbol \in {<<"A">>, <<>>},
        start \in {<<DateStr(1)>>, <<DateStr(3)>>, <<"soon">>, <<>>},
        adjust \in {<<"auto">>, <<"sideways">>}}

\* A run has returned records; or failures.csv was made by other means.  The
\* next run is started by Downloader.run(..., only_failures=True) or by the
\* `download` command, which alone has a strict mode (--strict-failures-csv).
ReloadInit ==
    /\ InitCommon
    /\ fs = EmptyFs /\ prevFs = EmptyFs /\ mergeOn = TRUE
    /\ yf = NoFetch /\ router = NoRouter /\ limiter = NoLimiter /\ LibIdle /\ ToolIdle
    /\ \E strict \in BOOLEAN, via \in {"api", "cli"}, quotesCR \in BOOLEAN :
        /\ strict => via = "cli"
        /\ \/ \E n \in 1..MaxRecords : \E records \in [1..n -> FailureRecords] :
                reload = [NoReload EXCEPT !.step = "returned", !.origin = "run",
                                          !.records = records, !.quotesCR = quotesCR,
                                          !.strict = strict, !.via = via]
           \/ \E n \in 1..MaxRecords : \E rows \in [1..n -> ForeignRows] :
                /\ ~quotesCR
                /\ reload = [NoReload EXCEPT !.step = "written", !.origin = "foreign",
                                             !.strict = strict, !.via = via,
                                             !.text = CsvText(rows, FALSE)]

reloadFrame == <<fs, ver, mergeOn, failuresCsv, tasks, queue, phase, runs, stats,
                 failures, last, prevFs, repeat, runVer, poolVars, yf, router, limiter,
                 libVars, toolVars>>

\* run(), lines 208-209: the failures of the run are written
WriteFailuresFile ==
    /\ reload.step = "returned"
    /\ reload' = [reload EXCEPT !.step = "written",
                                !.text = WriteFailures(reload.records, reload.quotesCR)]
    /\ UNCHANGED reloadFrame

\* Downloader.run(tasks, failures_path, only_failures=True), lines 135-136
ReloadRun ==
    /\ reload.step = "written" /\ reload.via = "api"
    /\ LET r == LoadFailures(reload.text)
       IN  reload' = [reload EXCEPT !.step = IF r.error = "none" THEN "loaded" ELSE "raised",
                                    !.error = r.error, !.loaded = r.tasks]
    /\ UNCHANGED reloadFrame

\* _run_download: run() is called with the keyword strict_failures_csv,
\* which its signature (downloader.py 128-134) does not have
CliRun ==
    /\ reload.step = "written" /\ reload.via = "cli"
    /\ reload' = [reload EXCEPT !.step = "raised", !.error = "TypeError"]
    /\ UNCHANGED reloadFrame

\* run(), lines 137-210: the tasks that were loaded are the tasks executed
ExecuteLoaded ==
    /\ reload.step = "loaded"
    /\ reload' = [reload EXCEPT !.step = "ran", !.executed = reload.loaded]
    /\ UNCHANGED reloadFrame

ReloadNext == WriteFailuresFile \/ ReloadRun \/ CliRun \/ ExecuteLoaded

ReloadSpec == ReloadInit /\ [][ReloadNext]_vars


\* ------------------------------------ RouterSpec: the router's dispatch
\* SourceRouter(yfinance_source, {"ashare": baostock_source}, ...)
DEFAULT_SOURCE == "yfinance"
SOURCE_BY_ASSET == [a \in {"ashare"} |-> "baostock"]
\* config.asset_types
ALLOWED_ASSET_TYPES == {"stock", "ashare"}

\* Tasks of one run, and calls of set_asset_type in one behaviour
MaxRouted == 3
MaxSets == 3

\* SourceRouter._select(asset_type), asset_type allowed or None
Select(asset_type) ==
    IF asset_type # "None" /\ asset_type \in DOMAIN SOURCE_BY_ASSET
    THEN SOURCE_BY_ASSET[asset_type]
    ELSE DEFAULT_SOURCE

\* The router as SourceRouter.__init__ leaves it: current_asset_type = None
RouterInit ==
    /\ InitCommon
    /\ fs = EmptyFs /\ prevFs = EmptyFs /\ mergeOn = TRUE
    /\ yf = NoFetch /\ reload = NoReload /\ limiter = NoLimiter /\ LibIdle /\ ToolIdle
    /\ router = NoRouter

routerFrame == <<fs, ver, mergeOn, failuresCsv, tasks, queue, phase, runs, stats,
                 failures, last, prevFs, repeat, runVer, poolVars, yf, reload, limiter,
                 libVars, toolVars>>

\* run(tasks): the asset types of the tasks, in the order they are worked
RouterStartRun ==
    /\ router.step \in {"idle", "done"}
    /\ \E n \in 1..MaxRouted : \E assets \in [1..n -> ALLOWED_ASSET_TYPES] :
          router' = [router EXCEPT !.step = "running", !.tasks = assets, !.served = <<>>]
    /\ UNCHANGED routerFrame

\* SourceRouter.set_asset_type(asset_type), from the thread of the interface
SetAssetType ==
    /\ router.sets < MaxSets
    /\ \E asset_type \in ALLOWED_ASSET_TYPES :
          router' = [router EXCEPT !.current = asset_type, !.sets = @ + 1]
    /\ UNCHANGED routerFrame

\* _fetch_range: self.source.fetch_ohlcv(task.symbol, task.interval, ...) of
\* the next task, which SourceRouter.fetch_ohlcv passes to
\* _select(self.current_asset_type)
RouterFetch ==
    /\ router.step = "running"
    /\ LET served == Append(router.served, Select(router.current))
       IN  router' = [router EXCEPT
                        !.served = served,
                        !.step = IF Len(served) = Len(router.tasks) THEN "done" ELSE "running"]
    /\ UNCHANGED routerFrame

RouterNext == RouterStartRun \/ SetAssetType \/ RouterFetch

RouterSpec == RouterInit /\ [][RouterNext]_vars


\* -------------------------------------- LimiterSpec: RateLimiter.wait
\* Time is counted in ticks of the monotonic clock.
TicksPerSecond == 2
\* The clock is followed up to MaxClock.
MaxClock == 6
\* Threads that call wait(), once each
MaxCallers == 3
Callers == 1..MaxCallers

\* RateLimitConfig: requests_per_second (a ratio num / den; 0: no limit),
\* jitter_min and jitter_max (ticks)
RateLimitConfigs ==
    [requests_per_second : {[num |-> 0, den |-> 1], [num |-> 1, den |-> 2],
                            [num |-> 1, den |-> 1], [num |-> 2, den |-> 1]},
     jitter : {[min |-> 0, max |-> 0], [min |-> 1, max |-> 2]}]

\* wait(), lines 25-27: min_interval, in ticks
MinInterval(rps) ==
    IF rps.num > 0 THEN (TicksPerSecond * rps.den) \div rps.num ELSE 0

\* A limiter that lets every caller through at once
SleepForNothing(now, next_allowed) == 0

\* wait(), line 31: sleep_for = max(0.0, next_allowed - now)
SleepFor(now, next_allowed) ==
    IF next_allowed > now THEN next_allowed - now ELSE 0

\* wait(), lines 32-33: random.uniform(jitter_min, jitter_max) if jitter_max > 0
Jitters(jitter) == IF jitter.max > 0 THEN jitter.min..jitter.max ELSE {0}

\* A lock that any thread may take at any time
LockFreeAlways(holder) == TRUE

\* threading.Lock: `with self._lock` is entered when no thread holds it
LockFree(holder) == holder = 0

\* RateLimiter.__init__, and no thread in wait()
LimiterInit ==
    /\ InitCommon
    /\ fs = EmptyFs /\ prevFs = EmptyFs /\ mergeOn = TRUE
    /\ yf = NoFetch /\ reload = NoReload /\ router = NoRouter /\ LibIdle /\ ToolIdle
    /\ \E config \in RateLimitConfigs :
          limiter = [step |-> "on", config |-> config, clock |-> 0, last_ts |-> 0,
                     holder |-> 0,
                     pc |-> [c \in Callers |-> "idle"],
                     now |-> [c \in Callers |-> 0],
                     next_allowed |-> [c \in Callers |-> 0],
                     jitter |-> [c \in Callers |-> 0],
                     release |-> [c \in Callers |-> 0],
                     returned |-> [c \in Callers |-> 0],
                     order |-> <<>>]

limiterFrame == <<fs, ver, mergeOn, failuresCsv, tasks, queue, phase, runs, stats,
                  failures, last, prevFs, repeat, runVer, poolVars, yf, reload, router,
                  libVars, toolVars>>

\* The monotonic clock advances.
Tick ==
    /\ limiter.clock < MaxClock
    /\ limiter' = [limiter EXCEPT !.clock = @ + 1]
    /\ UNCHANGED limiterFrame

\* wait(), lines 28-30: the lock is taken, the clock and _last_ts are read
LimEnter(c) ==
    /\ limiter.pc[c] = "idle"
    /\ LockFree(limiter.holder)
    /\ limiter' = [limiter EXCEPT
          !.holder = c,
          !.pc[c] = "locked",
          !.now[c] = limiter.clock,
          !.next_allowed[c] = limiter.last_ts
                              + MinInterval(limiter.config.requests_per_second)]
    /\ UNCHANGED limiterFrame

\* wait(), lines 31-34: sleep_for, _last_ts = now + sleep_for, the lock is
\* released
LimAssign(c) ==
    /\ limiter.pc[c] = "locked"
    /\ \E j \in Jitters(limiter.config.jitter) :
        LET sleep_for == SleepFor(limiter.now[c], limiter.next_allowed[c]) + j
        IN  limiter' = [limiter EXCEPT
              !.last_ts = limiter.now[c] + sleep_for,
              !.holder = 0,
              !.pc[c] = "sleeping",
              !.jitter[c] = j,
              !.release[c] = limiter.now[c] + sleep_for,
              !.order = Append(@, c)]
    /\ UNCHANGED limiterFrame

\* wait(), lines 35-36: time.sleep(sleep_for) is over, not before sleep_for
\* has passed and as long after as the scheduler makes it; wait() returns
LimReturn(c) ==
    /\ limiter.pc[c] = "sleeping"
    /\ limiter.clock >= limiter.release[c]
    /\ limiter' = [limiter EXCEPT !.pc[c] = "done", !.returned[c] = limiter.clock]
    /\ UNCHANGED limiterFrame

LimiterNext ==
    \/ Tick
    \/ \E c \in Callers : LimEnter(c) \/ LimAssign(c) \/ LimReturn(c)

LimiterSpec == LimiterInit /\ [][LimiterNext]_vars


\* ------------------------------------------- the library: common frame
\* The downloader and its sources, as constructed and left alone
CoreIdle ==
    /\ InitCommon
    /\ fs = EmptyFs /\ prevFs = EmptyFs /\ mergeOn = TRUE
    /\ yf = NoFetch /\ reload = NoReload /\ router = NoRouter /\ limiter = NoLimiter

coreFrame == <<fs, ver, mergeOn, failuresCsv, tasks, queue, phase, runs, stats,
               failures, last, prevFs, repeat, runVer, poolVars, yf, reload, router,
               limiter>>

\* ------------------------------------ CatalogSpec: CatalogService.get_catalog
\* Asset classes: stock and ashare have list endpoints, crypto stands for
\* the classes of _YAHOO_SCREENER_IDS (crypto, forex, commodity).
CatalogAssets == {"stock", "ashare", "crypto"}
SCREENER_ASSETS == {"crypto"}

\* config.catalog.retries
CatalogRetries == 3
\* Calls of get_catalog in one behaviour
MaxCatalogCalls == 2
\* config.catalog.sleep_sec, in units of time, and config.catalog.retry_backoff
\* of the model's configuration
SleepSec == 3
RetryBackoff == 2

\* CatalogConfig, the fields of the retry loop
CatalogConfigs == {[sleep_sec |-> SleepSec, retry_backoff |-> RetryBackoff]}

\* What an endpoint answers to one request: symbols, no symbol, an error
RemoteAnswers == {"items", "empty", "error"}
RemoteScripts == [1..(CatalogRetries + 1) -> RemoteAnswers]

\* A symbol list, by where it comes from: the endpoint's list, the list an
\* earlier session cached, _static_stock_catalog / _static_catalog
RemoteList(asset_type) == <<"remote", asset_type>>
CachedList(asset_type) == <<"cached", asset_type>>
StaticCatalog(asset_type) ==
    IF asset_type \in {"stock"} \cup SCREENER_ASSETS THEN <<"preset", asset_type>> ELSE <<>>

\* No cache file
NoCache == <<"no file">>

\* _load_cache(path): None (here <<>>) when there is no file
LoadCache(cache, asset_type) ==
    IF cache[asset_type] = NoCache THEN <<>> ELSE cache[asset_type]

\* The list an answer of the endpoint stands for
AnswerList(asset_type, answer) ==
    IF answer = "items" THEN RemoteList(asset_type) ELSE <<>>

\* (a variant: a delay that stays what it was)
NextDelayConstant(delay, retry_backoff) == delay
\* _fetch_with_retry, line 483: delay *= self.config.retry_backoff
NextDelay(delay, retry_backoff) == delay * retry_backoff

\* _fetch_with_retry, attempts k.. of `for attempt in range(retries + 1)`;
\* last_error is 0 (None) or the number of the attempt that raised last.
\* A list endpoint raises on an error; _fetch_yahoo_screener catches it and
\* returns [], and an empty screener result is replaced by _static_catalog.
\* attempts is the number of passes of the loop that were begun, sleeps the
\* arguments of the time.sleep calls, in order, and delay the value of
\* `delay` at the head of pass k.
RECURSIVE FetchWithRetry(_, _, _, _, _, _, _)
FetchWithRetry(asset_type, script, config, k, last_error, delay, sleeps) ==
    IF k > CatalogRetries + 1
    THEN [fetched |-> <<>>, last_error |-> last_error, attempts |-> k - 1,
          sleeps |-> sleeps]
    ELSE IF asset_type \in SCREENER_ASSETS
         THEN [fetched |-> IF AnswerList(asset_type, script[k]) # <<>>
                           THEN AnswerList(asset_type, script[k])
                           ELSE StaticCatalog(asset_type),
               last_error |-> 0, attempts |-> k, sleeps |-> sleeps]
         ELSE IF script[k] = "error"
              THEN FetchWithRetry(asset_type, script, config, k + 1, k,
                                  NextDelay(delay, config.retry_backoff),
                                  Append(sleeps, delay))
              ELSE [fetched |-> AnswerList(asset_type, script[k]), last_error |-> 0,
                    attempts |-> k, sleeps |-> sleeps]

\* get_catalog(asset_type, refresh) with no filter configured: the source
\* tag, the items, the error raised and the cache file it leaves
GetCatalogResult(cache, asset_type, refresh, script, config) ==
    LET cached == LoadCache(cache, asset_type)
        remote == FetchWithRetry(asset_type, script, config, 1, 0,
                                 config.sleep_sec, <<>>)
        fallback == IF asset_type = "stock" THEN StaticCatalog("stock") ELSE <<>>
    IN  IF ~refresh /\ cached # <<>>
            THEN [source |-> "cache", items |-> cached, error |-> "none",
                  last_error |-> 0, cache |-> cache,
                  attempts |-> 0, sleeps |-> <<>>]
        ELSE IF remote.fetched # <<>>
            THEN [source |-> "remote", items |-> remote.fetched, error |-> "none",
                  last_error |-> 0,
                  cache |-> [cache EXCEPT ![asset_type] = remote.fetched],
                  attempts |-> remote.attempts, sleeps |-> remote.sleeps]
        ELSE IF cached # <<>>
            THEN [source |-> "cache-fallback", items |-> cached, error |-> "none",
                  last_error |-> 0, cache |-> cache,
                  attempts |-> remote.attempts, sleeps |-> remote.sleeps]
        ELSE IF fallback # <<>>
            THEN [source |-> "static-fallback", items |-> fallback, error |-> "none",
                  last_error |-> 0,
                  cache |-> [cache EXCEPT ![asset_type] = fallback],
                  attempts |-> remote.attempts, sleeps |-> remote.sleeps]
        ELSE [source |-> "none", items |-> <<>>, error |-> "RuntimeError",
              last_error |-> remote.last_error, cache |-> cache,
              attempts |-> remote.attempts, sleeps |-> remote.sleeps]

\* A data_root whose catalog directory holds the cache files of earlier
\* sessions, or none
CatalogInit ==
    /\ CoreIdle
    /\ ToolIdle
    /\ filt = NoFilter /\ wr = NoWrite /\ batch = NoBatch /\ split = NoSplit
    /\ ring = NoRing
    /\ \E cache \in [CatalogAssets -> {"absent", "present"}],
          config \in CatalogConfigs :
          catalog = [step |-> "on", config |-> config,
                     cache |-> [a \in CatalogAssets |->
                                  IF cache[a] = "present" THEN CachedList(a) ELSE NoCache],
                     calls |-> 0, call |-> <<>>]

\* CatalogService.get_catalog(asset_type, refresh)
GetCatalog ==
    /\ catalog.step = "on"
    /\ catalog.calls < MaxCatalogCalls
    /\ \E asset_type \in CatalogAssets, refresh \in BOOLEAN, script \in RemoteScripts :
        LET r == GetCatalogResult(catalog.cache, asset_type, refresh, script,
                                  catalog.config)
        IN  catalog' = [catalog EXCEPT
                !.cache = r.cache,
                !.calls = @ + 1,
                !.call = [asset_type |-> asset_type, refresh |-> refresh,
                          script |-> script, before |-> catalog.cache,
                          source |-> r.source, items |-> r.items,
                          error |-> r.error, last_error |-> r.last_error,
                          attempts |-> r.attempts, sleeps |-> r.sleeps]]
    /\ UNCHANGED <<coreFrame, filt, wr, batch, split, ring, toolVars>>

CatalogNext == GetCatalog

CatalogSpec == CatalogInit /\ [][CatalogNext]_vars


\* --------------------------- WriterSpec: the paths and files of one write
\* A path is the sequence of its components below "/".  A string that is
\* joined into a path (asset_type, symbol, interval) is given by the
\* components "/" splits it into, and by whether it begins with "/".
PathString(abs, parts) == [abs |-> abs, parts |-> parts]

\* writer.data_root, resolved
DATA_ROOT == <<"srv", "data">>

\* A directory below data_root that may be a symbolic link, and its target
LINK_AT == <<"srv", "data", "stock", "L">>
LINK_TARGET == <<"mnt">>

\* Components that hold "..", one of _INVALID_SYMBOL_SUBSTRINGS
DOTDOT == {"..", "A..B"}

\* The asset types, symbols and intervals a DownloadTask may carry
WrAssetTypes ==
    {PathString(FALSE, <<"stock">>), PathString(FALSE, <<"..", "..", "etc">>),
     PathString(FALSE, <<"stock", "..">>), PathString(TRUE, <<"etc">>)}
WrSymbols ==
    {PathString(FALSE, <<"A">>), PathString(FALSE, <<"L">>), PathString(FALSE, <<".">>),
     PathString(FALSE, <<"..">>), PathString(FALSE, <<"A..B">>),
     PathString(FALSE, <<"..", "..", "A">>), PathString(TRUE, <<"etc">>),
     PathString(FALSE, <<>>)}
WrIntervals ==
    {PathString(FALSE, <<"1d">>), PathString(FALSE, <<"..", "1d">>),
     PathString(FALSE, <<"..", "..", "..", "..", "1d">>), PathString(TRUE, <<"tmp", "1d">>)}

\* _validate_symbol(symbol): the error it raises ("none": the token is safe).
\* "/" and ".." are among _INVALID_SYMBOL_SUBSTRINGS; "." alone matches
\* _SYMBOL_SAFE_RE.
ValidateSymbol(symbol) ==
    IF symbol.parts = <<>> /\ ~symbol.abs THEN "symbol is empty"
    ELSE IF symbol.abs \/ Len(symbol.parts) > 1 THEN "unsafe symbol"
    ELSE IF symbol.parts[1] \in DOTDOT THEN "unsafe symbol"
    ELSE "none"

\* pathlib's `/`: an operand that begins with "/" replaces what is before it
Join(path, str) == IF str.abs THEN str.parts ELSE path \o str.parts

\* f"{interval}_{start_str}_{end_str}.parquet", as a path string: the last
\* component of the interval becomes the file name
FileName(interval, suffix) ==
    PathString(interval.abs,
               [k \in DOMAIN interval.parts |->
                   IF k = Len(interval.parts)
                   THEN interval.parts[k] \o "_20240101_20240102" \o suffix
                   ELSE interval.parts[k]])

\* build_path before the check: data_root / asset_type / symbol / file name
RawPath(t) ==
    Join(Join(Join(DATA_ROOT, t.asset_type), t.symbol), FileName(t.interval, ".parquet"))

\* Path.resolve(): "." is dropped, ".." removes the component before it (if
\* any), a symbolic link is replaced by its target
RECURSIVE ResolveFrom(_, _, _)
ResolveFrom(done, rest, linked) ==
    IF rest = <<>> THEN done
    ELSE LET c == Head(rest)
             step == IF c = "." THEN done
                     ELSE IF c = ".." THEN
                         (IF done = <<>> THEN <<>> ELSE SubSeq(done, 1, Len(done) - 1))
                     ELSE Append(done, c)
         IN  ResolveFrom(IF linked /\ step = LINK_AT THEN LINK_TARGET ELSE step,
                         Tail(rest), linked)

Resolve(path, linked) == ResolveFrom(<<>>, path, linked)

\* resolved_path.relative_to(resolved_root) succeeds
IsRelativeTo(path, root) ==
    Len(path) >= Len(root) /\ SubSeq(path, 1, Len(root)) = root

\* A writer that accepts every path
EnsuredAlways(path, linked) == TRUE

\* _ensure_within_data_root(path) does not raise
Ensured(path, linked) == IsRelativeTo(Resolve(path, linked), DATA_ROOT)

\* The file system of a write: what each path holds ("old": the file of an
\* earlier run, "new": this run's table, "partial": an unfinished write)
WrNoFiles == [p \in {} |-> "old"]
WrPut(files, path, content) ==
    [p \in DOMAIN files \cup {path} |-> IF p = path THEN content ELSE files[p]]
WrRemove(files, path) == [p \in DOMAIN files \ {path} |-> files[p]]

\* output_path.with_suffix(output_path.suffix + ".tmp")
TmpPath(output_path) ==
    Append(SubSeq(output_path, 1, Len(output_path) - 1),
           output_path[Len(output_path)] \o ".tmp")

\* A task has fetched its rows; its output file may exist from an earlier run
WriterInit ==
    /\ CoreIdle
    /\ ToolIdle
    /\ catalog = NoCatalog /\ filt = NoFilter /\ batch = NoBatch /\ split = NoSplit
    /\ ring = NoRing
    /\ \E asset_type \in WrAssetTypes, symbol \in WrSymbols, interval \in WrIntervals,
          linked \in BOOLEAN, prior \in BOOLEAN :
        LET t == [asset_type |-> asset_type, symbol |-> symbol, interval |-> interval]
            files == IF prior /\ ValidateSymbol(symbol) = "none"
                     THEN WrPut(WrNoFiles, Resolve(RawPath(t), linked), "old")
                     ELSE WrNoFiles
        IN  wr = [step |-> "task", task |-> t, linked |-> linked,
                  files |-> files, before |-> files,
                  output_path |-> <<>>, touched |-> {}, error |-> "none",
                  failed |-> FALSE]

wrFrame == <<coreFrame, catalog, filt, batch, split, ring, toolVars>>

\* An exception leaves _run_task: worker records the task as failed
WrRaise(error) == [wr EXCEPT !.step = "raised", !.error = error, !.failed = TRUE]

\* _run_task, lines 217 and 232-238: find_existing and build_path validate
\* the symbol, build_path resolves the output path and checks it
WrBuildPath ==
    /\ wr.step = "task"
    /\ wr' = IF ValidateSymbol(wr.task.symbol) # "none"
                THEN WrRaise(ValidateSymbol(wr.task.symbol))
             ELSE IF ~Ensured(RawPath(wr.task), wr.linked)
                THEN WrRaise("output path escapes data_root")
             ELSE [wr EXCEPT !.step = "built",
                             !.output_path = Resolve(RawPath(wr.task), wr.linked)]
    /\ UNCHANGED wrFrame

\* merge_and_write, lines 124-125: the check again, then the directory
WrEnsureDir ==
    /\ wr.step = "built"
    /\ wr' = IF ~Ensured(wr.output_path, wr.linked)
                THEN WrRaise("output path escapes data_root")
             ELSE [wr EXCEPT
                     !.step = "dir",
                     !.touched = @ \cup {SubSeq(wr.output_path, 1, Len(wr.output_path) - 1)}]
    /\ UNCHANGED wrFrame

\* merge_and_write, lines 178-179: pq.write_table(table, tmp) writes the
\* whole table, or fails; when it fails pyarrow removes the file it began
\* ("refused"), unless that removal fails as well ("partial")
WrWriteTmp ==
    /\ wr.step = "dir"
    /\ \E outcome \in {"written", "partial", "refused"} :
        LET tmp == TmpPath(wr.output_path)
        IN  wr' = CASE outcome = "written" ->
                        [wr EXCEPT !.step = "tmp", !.files = WrPut(@, tmp, "new"),
                                   !.touched = @ \cup {tmp}]
                    [] outcome = "partial" ->
                        [WrRaise("OSError") EXCEPT !.files = WrPut(@, tmp, "partial"),
                                                   !.touched = @ \cup {tmp}]
                    [] outcome = "refused" -> WrRaise("OSError")
    /\ UNCHANGED wrFrame

\* merge_and_write, line 180: tmp.replace(output_path) succeeds or fails
WrReplace ==
    /\ wr.step = "tmp"
    /\ \E outcome \in {"replaced", "refused"} :
        wr' = IF outcome = "replaced"
              THEN [wr EXCEPT !.step = "done",
                              !.files = WrPut(WrRemove(@, TmpPath(wr.output_path)),
                                              wr.output_path, "new"),
                              !.touched = @ \cup {wr.output_path}]
              ELSE WrRaise("OSError")
    /\ UNCHANGED wrFrame

WriterNext == WrBuildPath \/ WrEnsureDir \/ WrWriteTmp \/ WrReplace

WriterSpec == WriterInit /\ [][WriterNext]_vars


\* ------------------------------ FilterSpec: _apply_filters on a catalog
\* A text is the sequence of its characters, as in the failures file.

\* str.upper(), on the letters that occur
UPPER ==
    ("a" :> "A") @@ ("b" :> "B") @@ ("c" :> "C") @@ ("e" :> "E") @@ ("f" :> "F")
    @@ ("l" :> "L") @@ ("n" :> "N") @@ ("o" :> "O") @@ ("s" :> "S") @@ ("t" :> "T")
    @@ ("y" :> "Y")
Upper(text) == [k \in DOMAIN text |-> IF text[k] \in DOMAIN UPPER THEN UPPER[text[k]]
                                      ELSE text[k]]

\* str.lower()
Lower(text) ==
    [k \in DOMAIN text |->
        IF \E c \in DOMAIN UPPER : UPPER[c] = text[k]
        THEN CHOOSE c \in DOMAIN UPPER : UPPER[c] = text[k] ELSE text[k]]

\* str.startswith(prefix)
StartsWith(text, prefix) ==
    Len(prefix) <= Len(text) /\ SubSeq(text, 1, Len(prefix)) = prefix

\* `part in text`
Contains(text, part) ==
    \E k \in 0..(Len(text) - Len(part)) : SubSeq(text, k + 1, k + Len(part)) = part

\* dict.get(key), None when the key is absent
DictGet(table, key) == IF key \in DOMAIN table THEN table[key] ELSE None

\* Entries of the alias tables
EXCHANGE_ALIAS_TO_CODE == (<<"N", "Y", "S", "E">> :> <<"N">>)
EXCHANGE_CODE_TO_ALIAS ==
    (<<"N", "Y", "S", "E">> :> <<"N", "Y", "S", "E">>) @@ (<<"N">> :> <<"N", "Y", "S", "E">>)
MARKET_ALIAS_TO_CODE == (<<"e", "n", "e", "r", "g", "y">> :> <<"E", "n", "e", "r", "g", "y">>)
MARKET_CODE_TO_ALIAS ==
    (<<"E", "n", "e", "r", "g", "y">> :> <<"E", "n", "e", "r", "g", "y">>)
FUND_CATEGORY_ALIAS_TO_CODE ==
    (<<"E", "T", "F">> :> <<"E", "T", "F">>) @@ (<<"e", "t", "f">> :> <<"E", "T", "F">>)
    @@ (<<"L", "O", "F">> :> <<"L", "O", "F">>) @@ (<<"l", "o", "f">> :> <<"L", "O", "F">>)
FUND_CATEGORY_CODE_TO_ALIAS ==
    (<<"E", "T", "F">> :> <<"E", "T", "F">>) @@ (<<"L", "O", "F">> :> <<"L", "O", "F">>)

\* `value or ""`
OrEmpty(value) == IF value = None THEN <<>> ELSE value

normalize_exchange_value(value) ==
    LET raw == Strip(value)
    IN  IF raw = <<>> THEN <<>>
        ELSE IF raw \in DOMAIN EXCHANGE_ALIAS_TO_CODE THEN EXCHANGE_ALIAS_TO_CODE[raw]
        ELSE Upper(raw)

normalize_market_value(value) ==
    LET raw == Strip(value)
    IN  IF raw = <<>> THEN <<>>
        ELSE IF Lower(raw) \in DOMAIN MARKET_ALIAS_TO_CODE
             THEN MARKET_ALIAS_TO_CODE[Lower(raw)]
        ELSE Upper(raw)

normalize_fund_category(value) ==
    LET raw == Strip(value)
    IN  IF raw = <<>> THEN <<>>
        ELSE IF raw \in DOMAIN FUND_CATEGORY_ALIAS_TO_CODE
             THEN FUND_CATEGORY_ALIAS_TO_CODE[raw]
        ELSE IF Upper(raw) \in DOMAIN FUND_CATEGORY_ALIAS_TO_CODE
             THEN FUND_CATEGORY_ALIAS_TO_CODE[Upper(raw)]
        ELSE Upper(raw)

exchange_alias(value) ==
    IF OrEmpty(value) = <<>> THEN None ELSE DictGet(EXCHANGE_CODE_TO_ALIAS, Upper(value))
market_alias(value) ==
    IF OrEmpty(value) = <<>> THEN None ELSE DictGet(MARKET_CODE_TO_ALIAS, Upper(value))
fund_category_alias(value) ==
    IF OrEmpty(value) = <<>> THEN None
    ELSE DictGet(FUND_CATEGORY_CODE_TO_ALIAS, Upper(value))

\* Patterns re.compile rejects with re.error
INVALID_PATTERNS == {<<"[">>, <<"(">>}

\* A service that keeps every pattern
CompileKeeping(patterns) == patterns

\* _compile_patterns: the patterns that compile, in order
CompilePatterns(patterns) ==
    SelectSeq(patterns, LAMBDA pat : pat \notin INVALID_PATTERNS)

\* r.search(text) of a pattern compiled with re.IGNORECASE; the patterns
\* are literal texts
Search(pat, text) == pat \notin INVALID_PATTERNS /\ Contains(Upper(text), Upper(pat))

\* The values of a list field that are kept (`if s`), each normalised
Kept(values, Norm(_)) == {Norm(values[k]) : k \in {j \in DOMAIN values : values[j] # <<>>}}

\* only_etf and only_fund are True, False or None; so are is_etf and is_fund
TRISTATE == {"True", "False", "None"}

\* A mutant of match, in which an included symbol is admitted at once
MatchIncludeFirst(item, filters) ==
    LET include_symbols == Kept(filters.include_symbols, Upper)
        exclude_symbols == Kept(filters.exclude_symbols, Upper)
    IN  IF include_symbols # {} /\ Upper(item.symbol) \in include_symbols THEN TRUE
        ELSE ~(exclude_symbols # {} /\ Upper(item.symbol) \in exclude_symbols)

\* match(item) of _apply_filters, test by test in the order of the code
Match(item, filters) ==
    LET include_regex == CompilePatterns(filters.include_regex)
        exclude_regex == CompilePatterns(filters.exclude_regex)
        include_name_regex == CompilePatterns(filters.include_name_regex)
        exclude_name_regex == CompilePatterns(filters.exclude_name_regex)
        include_prefixes == Kept(filters.include_prefixes, Upper)
        exclude_prefixes == Kept(filters.exclude_prefixes, Upper)
        include_symbols == Kept(filters.include_symbols, Upper)
        exclude_symbols == Kept(filters.exclude_symbols, Upper)
        include_exchanges == Kept(filters.include_exchanges, normalize_exchange_value)
        exclude_exchanges == Kept(filters.exclude_exchanges, normalize_exchange_value)
        include_markets == Kept(filters.include_market_categories, normalize_market_value)
        exclude_markets == Kept(filters.exclude_market_categories, normalize_market_value)
        include_fund_categories ==
            Kept(filters.include_fund_categories, normalize_fund_category)
        exclude_fund_categories ==
            Kept(filters.exclude_fund_categories, normalize_fund_category)
        symbol == item.symbol
        symbol_upper == Upper(symbol)
        name == OrEmpty(item.name)
        exchange_upper == normalize_exchange_value(OrEmpty(item.exchange))
        market_upper == normalize_market_value(OrEmpty(item.market_category))
        exchange_alias_value == exchange_alias(item.exchange)
        market_alias_value == market_alias(item.market_category)
        fund_category == normalize_fund_category(OrEmpty(item.fund_category))
        fund_alias_value == fund_category_alias(item.fund_category)
    IN  IF include_symbols # {} /\ symbol_upper \notin include_symbols THEN FALSE
        ELSE IF exclude_symbols # {} /\ symbol_upper \in exclude_symbols THEN FALSE
        ELSE IF include_exchanges # {} /\ exchange_upper \notin include_exchanges
                /\ (exchange_alias_value = None
                    \/ exchange_alias_value \notin include_exchanges) THEN FALSE
        ELSE IF exclude_exchanges # {}
                /\ (exchange_upper \in exclude_exchanges
                    \/ (exchange_alias_value # None
                        /\ exchange_alias_value \in exclude_exchanges)) THEN FALSE
        ELSE IF include_markets # {} /\ market_upper \notin include_markets
                /\ (market_alias_value = None
                    \/ market_alias_value \notin include_markets) THEN FALSE
        ELSE IF exclude_markets # {}
                /\ (market_upper \in exclude_markets
                    \/ (market_alias_value # None
                        /\ market_alias_value \in exclude_markets)) THEN FALSE
        ELSE IF include_fund_categories # {} /\ fund_category \notin include_fund_categories
                /\ (fund_alias_value = None
                    \/ fund_alias_value \notin include_fund_categories) THEN FALSE
        ELSE IF exclude_fund_categories # {}
                /\ (fund_category \in exclude_fund_categories
                    \/ (fund_alias_value # None
                        /\ fund_alias_value \in exclude_fund_categories)) THEN FALSE
        ELSE IF include_prefixes # {}
                /\ ~\E pre \in include_prefixes : StartsWith(symbol_upper, pre) THEN FALSE
        ELSE IF exclude_prefixes # {}
                /\ \E pre \in exclude_prefixes : StartsWith(symbol_upper, pre) THEN FALSE
        ELSE IF include_regex # <<>>
                /\ ~\E k \in DOMAIN include_regex : Search(include_regex[k], symbol)
             THEN FALSE
        ELSE IF exclude_regex # <<>>
                /\ \E k \in DOMAIN exclude_regex : Search(exclude_regex[k], symbol)
             THEN FALSE
        ELSE IF include_name_regex # <<>>
                /\ ~\E k \in DOMAIN include_name_regex : Search(include_name_regex[k], name)
             THEN FALSE
        ELSE IF exclude_name_regex # <<>>
                /\ \E k \in DOMAIN exclude_name_regex : Search(exclude_name_regex[k], name)
             THEN FALSE
        ELSE IF filters.only_etf = "True" /\ filters.only_fund = "True"
                /\ ~(item.is_etf = "True" \/ item.is_fund = "True") THEN FALSE
        ELSE IF ~(filters.only_etf = "True" /\ filters.only_fund = "True")
                /\ filters.only_etf = "True" /\ item.is_etf # "True" THEN FALSE
        ELSE IF ~(filters.only_etf = "True" /\ filters.only_fund = "True")
                /\ filters.only_fund = "True" /\ item.is_fund # "True" THEN FALSE
        ELSE IF filters.only_etf = "False" /\ item.is_etf = "True" THEN FALSE
        ELSE IF filters.only_fund = "False" /\ item.is_fund = "True" THEN FALSE
        ELSE TRUE

\* `limit`: <<>> is None, <<n>> is the number n
NoLimit == <<>>

\* _apply_filters(items, limit, filters)
ApplyFilters(items, limit, filters) ==
    LET filtered == SelectSeq(items, LAMBDA item : Match(item, filters))
    IN  IF limit = NoLimit THEN filtered
        ELSE SubSeq(filtered, 1,
                    IF limit[1] < 0 THEN 0
                    ELSE IF limit[1] < Len(filtered) THEN limit[1] ELSE Len(filtered))

\* The list fields of FilterConfig and the values drawn for each
REGEX_FIELDS ==
    {"include_regex", "exclude_regex", "include_name_regex", "exclude_name_regex"}
LIST_FIELDS ==
    REGEX_FIELDS \cup
    {"include_prefixes", "exclude_prefixes", "include_symbols", "exclude_symbols",
     "include_exchanges", "exclude_exchanges", "include_market_categories",
     "exclude_market_categories", "include_fund_categories", "exclude_fund_categories"}

FieldValues(fld) ==
    IF fld \in REGEX_FIELDS
        THEN {<<<<"[">>>>, <<<<"a">>>>, <<<<"(">>, <<"[">>>>, <<<<"[">>, <<"B">>>>}
    ELSE IF fld \in {"include_prefixes", "exclude_prefixes"}
        THEN {<<<<"a">>>>, <<<<>>, <<"B">>>>}
    ELSE IF fld \in {"include_symbols", "exclude_symbols"}
        THEN {<<<<"a", "b">>>>, <<<<"A", "B">>, <<"B", "A">>>>, <<<<>>>>}
    ELSE IF fld \in {"include_exchanges", "exclude_exchanges"}
        THEN {<<<<"N", "Y", "S", "E">>>>, <<<<"n">>>>, <<<<LF>>>>}
    ELSE IF fld \in {"include_market_categories", "exclude_market_categories"}
        THEN {<<<<"Q">>>>, <<<<"E", "n", "e", "r", "g", "y">>>>}
    ELSE {<<<<"e", "t", "f">>>>, <<<<"L", "O", "F">>>>}

\* The number of list fields a FilterConfig sets, and the length of a catalog
MaxConfigured == 2
MaxItems == 2

\* FilterConfig(): every list empty, both flags None
DefaultFilters ==
    [fld \in LIST_FIELDS \cup {"only_etf", "only_fund"} |->
        IF fld \in LIST_FIELDS THEN <<>> ELSE "None"]

FilterConfigs ==
    {[fld \in DOMAIN DefaultFilters |->
         IF fld \in DOMAIN set THEN set[fld]
         ELSE IF fld = "only_etf" THEN flags[1]
         ELSE IF fld = "only_fund" THEN flags[2]
         ELSE DefaultFilters[fld]] :
       set \in UNION {{v \in [S -> UNION {FieldValues(q) : q \in S}] :
                          \A q \in S : v[q] \in FieldValues(q)} :
                      S \in {T \in SUBSET LIST_FIELDS : Cardinality(T) <= MaxConfigured}},
       flags \in TRISTATE \X TRISTATE}

\* SymbolInfo values of a catalog
SymbolInfos ==
    {[symbol |-> <<"A", "B">>, name |-> <<"A", "c">>, exchange |-> <<"N", "Y", "S", "E">>,
      market_category |-> <<"Q">>, is_etf |-> "True", is_fund |-> "True",
      fund_category |-> <<"E", "T", "F">>],
     [symbol |-> <<"a", "b">>, name |-> None, exchange |-> <<"N">>,
      market_category |-> <<"e", "n", "e", "r", "g", "y">>, is_etf |-> "False",
      is_fund |-> "True", fund_category |-> <<"L", "O", "F">>],
     [symbol |-> <<"B", "A">>, name |-> <<"b", "a">>, exchange |-> None,
      market_category |-> None, is_etf |-> "None", is_fund |-> "None",
      fund_category |-> None],
     [symbol |-> <<"C">>, name |-> <<"C">>, exchange |-> <<"n", "y", "s", "e">>,
      market_category |-> <<"q">>, is_etf |-> "True", is_fund |-> "False",
      fund_category |-> <<"e", "t", "f">>]}

Catalogs == UNION {[1..n -> SymbolInfos] : n \in 0..MaxItems}

\* A catalog was loaded or fetched; a FilterConfig is in force
FilterInit ==
    /\ CoreIdle
    /\ ToolIdle
    /\ catalog = NoCatalog /\ wr = NoWrite /\ batch = NoBatch /\ split = NoSplit
    /\ ring = NoRing
    /\ \E items \in Catalogs, filters \in FilterConfigs :
        filt = [step |-> "loaded", items |-> items, filters |-> filters, result |-> <<>>]

\* get_catalog, lines 403, 414, 419, 431: _apply_filters(items, None, filters)
ApplyFiltersCall ==
    /\ filt.step = "loaded"
    /\ filt' = [filt EXCEPT !.step = "filtered",
                            !.result = ApplyFilters(filt.items, NoLimit, filt.filters)]
    /\ UNCHANGED <<coreFrame, catalog, wr, batch, split, ring, toolVars>>

FilterNext == ApplyFiltersCall

FilterSpec == FilterInit /\ [][FilterNext]_vars


\* ------------------------------------------- BatchSpec: validate_batch
\* A file of the store is a parquet file that can be read or one that cannot
FileKinds == {"parquet", "unreadable"}

\* Bounds: the files of a batch, the processors of the machine
MaxFiles == 4
MaxCpu == 2

\* The pool is not used for at most this many files
SERIAL_LIMIT == 2
\* The largest pool
POOL_LIMIT == 32
\* `os.cpu_count() or 4`
DEFAULT_CPU == 4

Max(a, b) == IF a < b THEN b ELSE a

\* max_workers: <<>> is None, <<n>> is the number n
MaxWorkersArgs == {<<>>, <<0>>, <<1>>, <<2>>}

\* os.cpu_count(): 0 stands for None
CpuCounts == 0..MaxCpu

\* validate_batch, lines 305-308
PoolSize(max_workers, cpu, files) ==
    LET n == IF max_workers = <<>>
             THEN (IF files # <<>>
                   THEN Min(Min(IF cpu = 0 THEN DEFAULT_CPU ELSE cpu, Len(files)), POOL_LIMIT)
                   ELSE 1)
             ELSE max_workers[1]
    IN  Max(n, 1)

\* validate_parquet_file(p): it catches what reading raises and then returns
\* _empty_summary with one parquet.read_failed issue
ValidateParquetFile(files, p) ==
    IF files[p] = "unreadable"
    THEN [summary |-> [path |-> p, row_count |-> "empty"],
          issues |-> <<[rule_id |-> "parquet.read_failed", path |-> p]>>]
    ELSE [summary |-> [path |-> p, row_count |-> "rows"], issues |-> <<>>]

\* A progress that reports the position of the file in the list
BatchProgressOfIndex(total, completed, p) ==
    [total |-> total, completed |-> p, current_file |-> p]

\* BatchProgress(total=total, completed=..., current_file=p.name)
BatchProgress(total, completed, p) ==
    [total |-> total, completed |-> completed, current_file |-> p]

\* The body shared by both paths: the summary is appended, the issues are
\* collected, on_result is called
Collected(b, p, completed) ==
    LET r == ValidateParquetFile(b.files, p)
    IN  [b EXCEPT !.completed = completed,
                  !.summaries = Append(@, r.summary),
                  !.all_issues = @ \o r.issues,
                  !.calls = Append(@, [summary |-> r.summary, issues |-> r.issues,
                                       progress |-> BatchProgress(Len(b.files), completed, p)])]

\* A caller is about to validate a list of files
BatchInit ==
    /\ CoreIdle
    /\ ToolIdle
    /\ catalog = NoCatalog /\ filt = NoFilter /\ wr = NoWrite /\ split = NoSplit
    /\ ring = NoRing
    /\ \E n \in 0..MaxFiles :
        \E files \in [1..n -> FileKinds], max_workers \in MaxWorkersArgs, cpu \in CpuCounts :
            batch = [NoBatch EXCEPT !.step = "call", !.files = files,
                                    !.max_workers = max_workers, !.cpu = cpu]

batchFrame == <<coreFrame, catalog, filt, wr, split, ring, toolVars>>

\* validate_batch, lines 305-317 and 331-333: no file: return; few files or
\* one worker: the serial loop; else every file is submitted to the pool
BatchCall ==
    /\ batch.step = "call"
    /\ LET workers == PoolSize(batch.max_workers, batch.cpu, batch.files)
           total == Len(batch.files)
       IN  batch' = [batch EXCEPT
                       !.workers = workers,
                       !.step = IF total = 0 THEN "returned"
                                ELSE IF total <= SERIAL_LIMIT \/ workers = 1 THEN "serial"
                                ELSE "pool",
                       !.pending = IF total > SERIAL_LIMIT /\ workers # 1
                                   THEN DOMAIN batch.files ELSE {}]
    /\ UNCHANGED batchFrame

\* lines 318-328: one turn of `for idx, p in enumerate(files)`
SerialStep ==
    /\ batch.step = "serial"
    /\ batch.completed < Len(batch.files)
    /\ batch' = Collected(batch, batch.completed + 1, batch.completed + 1)
    /\ UNCHANGED batchFrame

\* A thread of the pool takes the file submitted first
PoolStart ==
    /\ batch.step = "pool"
    /\ batch.pending # {}
    /\ Cardinality(batch.running) < batch.workers
    /\ LET p == CHOOSE q \in batch.pending : \A o \in batch.pending : q <= o
       IN  batch' = [batch EXCEPT !.pending = @ \ {p}, !.running = @ \cup {p}]
    /\ UNCHANGED batchFrame

\* validate_parquet_file returns in a thread of the pool
PoolFinish ==
    /\ batch.step = "pool"
    /\ \E p \in batch.running :
        batch' = [batch EXCEPT !.running = @ \ {p}, !.done = @ \cup {p}]
    /\ UNCHANGED batchFrame

\* A loop that keeps one of the futures finished together
PoolCollectDropping ==
    /\ batch.step = "pool"
    /\ \E p \in batch.done :
        batch' = [Collected(batch, p, batch.completed + 1) EXCEPT !.done = {}]
    /\ UNCHANGED batchFrame

\* lines 334-361: as_completed yields a finished future, in no fixed order
\* among those finished
PoolCollect ==
    /\ batch.step = "pool"
    /\ \E p \in batch.done :
        batch' = [Collected(batch, p, batch.completed + 1) EXCEPT !.done = @ \ {p}]
    /\ UNCHANGED batchFrame

\* lines 329 and 362: return summaries, all_issues
BatchReturn ==
    /\ \/ batch.step = "serial" /\ batch.completed = Len(batch.files)
       \/ /\ batch.step = "pool"
          /\ batch.pending = {} /\ batch.running = {} /\ batch.done = {}
    /\ batch' = [batch EXCEPT !.step = "returned"]
    /\ UNCHANGED batchFrame

BatchNext ==
    BatchCall \/ SerialStep \/ PoolStart \/ PoolFinish \/ PoolCollect \/ BatchReturn

BatchSpec == BatchInit /\ [][BatchNext]_vars


\* ------------------------- SplitSpec: the range a task fetches, in chunks
\* Instants are counted in half days from 1; 0 is no instant (None).
DAY == 2

\* Bounds: the last instant, the largest batch_days
MaxInstant == 8
MaxBatchDays == 2
Instants == 1..MaxInstant

\* ParquetWriter._interval_delta of the intervals "12h" and "1d"
SPLIT_INTERVALS == {"12h", "1d"}
IntervalDeltaOf(interval) == IF interval = "12h" THEN 1 ELSE DAY

\* ParquetWriter.next_start(last_dt, interval)
NextStartOf(last_dt, interval) == last_dt + IntervalDeltaOf(interval)

\* existing = None
NoExisting == [start |-> 0, max |-> NoMax]

\* _run_task, lines 226-227
SkipsRange(task, existing) ==
    existing # NoExisting /\ existing.start <= task.start /\ existing.max # NoMax
    /\ existing.max >= task.end

\* A task that fetches its whole range again
FetchFromStart(task, existing) == task.start

\* _run_task, lines 221 and 228-229: task_start
FetchFrom(task, existing) ==
    IF existing # NoExisting /\ existing.start <= task.start /\ existing.max # NoMax
    THEN NextStartOf(existing.max, task.interval) ELSE task.start

\* A split that does not cut the last chunk at the end of the range
RECURSIVE SplitRangeUncut(_, _, _)
SplitRangeUncut(current, final, batch_days) ==
    IF current < final
    THEN <<<<current, current + batch_days * DAY>>>>
            \o SplitRangeUncut(current + batch_days * DAY, final, batch_days)
    ELSE <<>>

\* Downloader._split_range, with self.batch_days as a parameter
RECURSIVE SplitRangeDays(_, _, _)
SplitRangeDays(current, final, batch_days) ==
    IF current < final
    THEN LET chunk_end == Min(final, current + batch_days * DAY)
         IN  <<<<current, chunk_end>>>> \o SplitRangeDays(chunk_end, final, batch_days)
    ELSE <<>>

\* A task is taken by a worker; a file of its triple may exist
SplitInit ==
    /\ CoreIdle
    /\ ToolIdle
    /\ catalog = NoCatalog /\ filt = NoFilter /\ wr = NoWrite /\ batch = NoBatch
    /\ ring = NoRing
    /\ \E s \in Instants, e \in Instants, interval \in SPLIT_INTERVALS,
          batch_days \in 1..MaxBatchDays :
        /\ s < e
        /\ \E existing \in {NoExisting}
                 \cup [start : Instants, max : {NoMax} \cup Instants] :
            split = [NoSplit EXCEPT
                       !.step = "task",
                       !.task = [start |-> s, end |-> e, interval |-> interval],
                       !.batch_days = batch_days, !.existing = existing]

splitFrame == <<coreFrame, catalog, filt, wr, batch, ring, toolVars>>

\* _run_task, lines 218-230, and _fetch_range, line 244: skip, or the list
\* of the chunks of [task_start, task.end]
RunTaskSplit ==
    /\ split.step = "task"
    /\ split' = IF SkipsRange(split.task, split.existing)
                THEN [split EXCEPT !.step = "skipped"]
                ELSE [split EXCEPT
                        !.step = "fetching",
                        !.chunks = SplitRangeDays(FetchFrom(split.task, split.existing),
                                                  split.task.end, split.batch_days)]
    /\ UNCHANGED splitFrame

\* _fetch_range, lines 246-256: one turn of the loop: cancelled, or the
\* next chunk is requested from the source, which returns or raises
FetchChunk ==
    /\ split.step = "fetching"
    /\ Len(split.requested) < Len(split.chunks)
    /\ \E outcome \in {"cancelled", "returned", "raised"} :
        split' = IF outcome = "cancelled" THEN [split EXCEPT !.step = "cancelled"]
                 ELSE [split EXCEPT
                         !.requested = Append(@, split.chunks[Len(split.requested) + 1]),
                         !.step = IF outcome = "raised" THEN "raised" ELSE "fetching"]
    /\ UNCHANGED splitFrame

\* _fetch_range, lines 257-260: the loop is over
FetchRangeReturn ==
    /\ split.step = "fetching"
    /\ Len(split.requested) = Len(split.chunks)
    /\ split' = [split EXCEPT !.step = "fetched"]
    /\ UNCHANGED splitFrame

SplitNext == RunTaskSplit \/ FetchChunk \/ FetchRangeReturn

SplitSpec == SplitInit /\ [][SplitNext]_vars


\* ------------------- RingSpec: DownloadStats.recent_failures of a long run
\* The failures kept for display
RING_SIZE == 20

\* Bounds: the tasks of a run with one worker, the tasks of a run with two
\* workers, the tasks the provider may answer
MaxRingTasks == 22
MaxPoolTasks == 3
MaxHealthy == 2
RingThreads == 1..2

\* A display that keeps the oldest failures
KeepOldest(recent_failures) ==
    IF Len(recent_failures) > RING_SIZE
    THEN SubSeq(recent_failures, 1, RING_SIZE) ELSE recent_failures

\* worker, lines 186-187: recent_failures[-20:] once it is longer than 20
KeepRecent(recent_failures) ==
    IF Len(recent_failures) > RING_SIZE
    THEN SubSeq(recent_failures, Len(recent_failures) - RING_SIZE + 1,
                Len(recent_failures))
    ELSE recent_failures

\* DownloadStats(total=len(tasks)), recent_failures included
DownloadStats(total) ==
    [total |-> total, completed |-> 0, active |-> 0, failed |-> 0, skipped |-> 0,
     recent_failures |-> <<>>]

\* update(stats): what progress_cb is given, with the records collected
\* so far
Seen(r) == <<[stats |-> r.stats, failures |-> r.failures]>>

\* run() is called with tasks 1..total (in the order the shuffle gave them);
\* the provider answers the tasks of `healthy` and fails every other
RingInit ==
    /\ CoreIdle
    /\ ToolIdle
    /\ catalog = NoCatalog /\ filt = NoFilter /\ wr = NoWrite /\ batch = NoBatch
    /\ split = NoSplit
    /\ \E workers \in RingThreads, healthy \in SUBSET (1..MaxHealthy) :
        \E total \in 0..(IF workers = 1 THEN MaxRingTasks ELSE MaxPoolTasks) :
            ring = [NoRing EXCEPT
                      !.step = "call", !.total = total, !.concurrency = workers,
                      !.healthy = healthy,
                      !.pc = [w \in RingThreads |-> "idle"],
                      !.cur = [w \in RingThreads |-> 0]]

ringFrame == <<coreFrame, catalog, filt, wr, batch, split, toolVars>>

\* run(), lines 138-139 and 196-202
RingStartRun ==
    /\ ring.step = "call"
    /\ ring' = [ring EXCEPT !.stats = DownloadStats(ring.total),
                            !.step = IF ring.total = 0 THEN "returned" ELSE "running"]
    /\ UNCHANGED ringFrame

\* cancel()
RingCancel ==
    /\ ring.step = "running" /\ ~ring.cancel
    /\ ring' = [ring EXCEPT !.cancel = TRUE]
    /\ UNCHANGED ringFrame

\* A thread of the pool takes the next task; worker, lines 149-154
RingTake(w) ==
    /\ ring.step = "running" /\ w <= ring.concurrency
    /\ ring.pc[w] = "idle" /\ ring.taken < ring.total
    /\ ring' = [ring EXCEPT !.taken = @ + 1, !.cur[w] = ring.taken + 1,
                            !.pc[w] = IF ring.cancel THEN "idle" ELSE "start"]
    /\ UNCHANGED ringFrame

\* worker, lines 157-159
RingActive(w) ==
    /\ ring.pc[w] = "start"
    /\ LET r == [ring EXCEPT !.stats.active = @ + 1, !.pc[w] = "run"]
       IN  ring' = [r EXCEPT !.seen = Seen(r)]
    /\ UNCHANGED ringFrame

\* worker, lines 160-165: _run_task returns (skipped or not) or raises
RingRunTask(w) ==
    /\ ring.pc[w] = "run"
    /\ \/ /\ ring.cur[w] \in ring.healthy \/ ring.cancel
          /\ \E status \in {"ok", "skipped"} :
              ring' = [ring EXCEPT !.stats.skipped = IF status = "skipped" THEN @ + 1 ELSE @,
                                   !.pc[w] = "finally"]
       \/ /\ ring.cur[w] \notin ring.healthy
          /\ ring' = [ring EXCEPT !.pc[w] = "except"]
    /\ UNCHANGED ringFrame

\* worker, lines 165-189
RingExcept(w) ==
    /\ ring.pc[w] = "except"
    /\ ring' = IF ring.cancel THEN [ring EXCEPT !.pc[w] = "finally"]
               ELSE LET r == [ring EXCEPT
                                !.stats.failed = @ + 1,
                                !.failures = Append(@, ring.cur[w]),
                                !.stats.recent_failures = KeepRecent(Append(@, ring.cur[w])),
                                !.pc[w] = "finally"]
                    IN  [r EXCEPT !.seen = Seen(r)]
    /\ UNCHANGED ringFrame

\* worker, lines 190-194
RingFinally(w) ==
    /\ ring.pc[w] = "finally"
    /\ LET r == [ring EXCEPT !.stats.active = @ - 1, !.stats.completed = @ + 1,
                             !.pc[w] = "idle", !.cur[w] = 0]
       IN  ring' = [r EXCEPT !.seen = Seen(r)]
    /\ UNCHANGED ringFrame

\* run(), lines 201-210: the pool has shut down
RingReturn ==
    /\ ring.step = "running" /\ ring.taken = ring.total
    /\ \A w \in RingThreads : ring.pc[w] = "idle"
    /\ ring' = [ring EXCEPT !.step = "returned"]
    /\ UNCHANGED ringFrame

RingWorker ==
    \E w \in RingThreads :
        RingTake(w) \/ RingActive(w) \/ RingRunTask(w) \/ RingExcept(w) \/ RingFinally(w)

RingNext == RingStartRun \/ RingCancel \/ RingWorker \/ RingReturn

RingSpec == RingInit /\ [][RingNext]_vars


\* ------------------------ DeltaSpec: ParquetWriter._interval_delta
\* An interval token is a text, a sequence of characters: digits, a sign,
\* a blank, the letters of the units, an upper-case letter and a letter of
\* no unit.
MaxTokenLen == 3
IntervalChars ==
    {"0", "1", "2", "-", " ", "d", "h", "m", "s", "w", "k", "o", "y", "D", "x"}
IntervalTokens == UNION {[1..n -> IntervalChars] : n \in 0..MaxTokenLen}

DIGITS == ("0" :> 0) @@ ("1" :> 1) @@ ("2" :> 2)
WHITESPACE == {" "}

\* str.strip()
RECURSIVE LStripBlank(_)
LStripBlank(text) ==
    IF text # <<>> /\ Head(text) \in WHITESPACE THEN LStripBlank(Tail(text)) ELSE text
RECURSIVE RStripBlank(_)
RStripBlank(text) ==
    IF text # <<>> /\ text[Len(text)] \in WHITESPACE
    THEN RStripBlank(SubSeq(text, 1, Len(text) - 1)) ELSE text
StripBlank(text) == RStripBlank(LStripBlank(text))

\* str.lower(), on the characters of a token
LowerChar(c) == IF c = "D" THEN "d" ELSE c
LowerText(text) == [k \in DOMAIN text |-> LowerChar(text[k])]

\* str.endswith(suffix)
EndsWith(text, suffix) ==
    /\ Len(suffix) <= Len(text)
    /\ SubSeq(text, Len(text) - Len(suffix) + 1, Len(text)) = suffix

\* text[:-n]
DropLast(text, n) ==
    IF Len(text) <= n THEN <<>> ELSE SubSeq(text, 1, Len(text) - n)

\* The value of a run of decimal digits
RECURSIVE DecimalValue(_)
DecimalValue(digits) ==
    IF digits = <<>> THEN 0
    ELSE 10 * DecimalValue(SubSeq(digits, 1, Len(digits) - 1))
            + DIGITS[digits[Len(digits)]]

AllDigits(text) == text # <<>> /\ \A k \in DOMAIN text : text[k] \in DOMAIN DIGITS

\* int(text): surrounding whitespace is dropped, a sign may precede the
\* digits, and anything else is a ValueError ("invalid": no integer)
IntOf(text) ==
    LET t == StripBlank(text)
        signed == t # <<>> /\ Head(t) = "-"
        digits == IF signed THEN Tail(t) ELSE t
    IN  IF AllDigits(digits)
        THEN [valid |-> TRUE,
              value |-> IF signed THEN 0 - DecimalValue(digits)
                        ELSE DecimalValue(digits)]
        ELSE [valid |-> FALSE, value |-> 0]

\* `text or "1"`
OrOne(text) == IF text = <<>> THEN <<"1">> ELSE text

\* timedelta(...), in seconds
Timedelta(seconds) == [raised |-> "none", seconds |-> seconds]
\* raise
Raised(exception) == [raised |-> exception, seconds |-> 0]

\* timedelta(days=1), timedelta(hours=1), ... in seconds
UNIT_SECONDS == ("d" :> 86400) @@ ("h" :> 3600) @@ ("m" :> 60) @@ ("s" :> 1)

\* timedelta(<unit>=count * factor) of int(digits or "1"), or the
\* ValueError of int()
DeltaOfCount(digits, factor, unit) ==
    LET count == IntOf(OrOne(digits))
    IN  IF count.valid THEN Timedelta(factor * count.value * UNIT_SECONDS[unit])
        ELSE Raised("ValueError")

\* ParquetWriter._interval_delta, lines 182-210
IntervalDeltaText(token) ==
    LET interval == LowerText(StripBlank(token))
    IN  IF EndsWith(interval, <<"w", "k">>)
        THEN DeltaOfCount(DropLast(interval, 2), 7, "d")
        ELSE IF interval = <<"w">> THEN Timedelta(7 * UNIT_SECONDS["d"])
        ELSE IF EndsWith(interval, <<"m", "o">>)
        THEN DeltaOfCount(DropLast(interval, 2), 30, "d")
        ELSE IF EndsWith(interval, <<"y">>)
        THEN DeltaOfCount(DropLast(interval, 1), 365, "d")
        ELSE IF interval = <<>> THEN Raised("IndexError")
        ELSE LET unit == interval[Len(interval)]
             IN  IF unit \notin {"d", "h", "m", "s"} THEN Raised("ValueError")
                 ELSE DeltaOfCount(DropLast(interval, 1), 1, unit)

DeltaInit ==
    /\ CoreIdle
    /\ LibIdle
    /\ look = NoLookup
    /\ aw = NoAtomic
    /\ \E token \in IntervalTokens :
        delta = [step |-> "call", interval |-> token, result |-> <<>>]

deltaFrame == <<coreFrame, libVars, aw, look>>

\* self._interval_delta(interval) returns or raises
IntervalDeltaCall ==
    /\ delta.step = "call"
    /\ delta' = [delta EXCEPT !.step = "done",
                              !.result = IntervalDeltaText(delta.interval)]
    /\ UNCHANGED deltaFrame

DeltaNext == IntervalDeltaCall

DeltaSpec == DeltaInit /\ [][DeltaNext]_vars


\* ------------------------------------------------- fsutils.atomic_write_bytes
\* One final path (a catalog cache file or failures.csv) and its `.tmp`
\* sibling.  A directory entry names an inode; an inode holds the blocks
\* written so far.  Writers run atomic_write_bytes on the same path, each a
\* system call per step; a reader opens the final path and reads it block by
\* block.
MaxBlocks == 2
Writers == {1, 2}
Blocks == {"a", "b"}
HOLE == "nul"
NoInode == 0
OldContent == <<"o">>

\* The contents a caller may hand over: one to MaxBlocks blocks
Contents == UNION {[1..n -> Blocks] : n \in 1..MaxBlocks}

\* write(2) of one block at an offset: a gap before it reads as zeros
WriteAt(content, pos, block) ==
    [i \in 1..(IF Len(content) > pos THEN Len(content) ELSE pos + 1) |->
        IF i = pos + 1 THEN block
        ELSE IF i <= Len(content) THEN content[i]
        ELSE HOLE]

\* path.with_suffix(path.suffix + ".tmp"): the same name for every caller
TmpName(w) == 0

AtomicInit ==
    /\ CoreIdle
    /\ LibIdle
    /\ look = NoLookup
    /\ delta = NoDelta
    /\ \E data \in [Writers -> Contents], present \in BOOLEAN :
        aw = [names |-> [path |-> IF present THEN 1 ELSE NoInode,
                         tmp |-> [t \in {TmpName(w) : w \in Writers} |-> NoInode]],
              inodes |-> IF present THEN <<OldContent>> ELSE <<>>,
              writers |-> [w \in Writers |->
                             [pc |-> "start", data |-> data[w],
                              fd |-> NoInode, pos |-> 0]],
              reader |-> [pc |-> "start", fd |-> NoInode, pos |-> 0,
                          got |-> <<>>]]

atomicFrame == <<coreFrame, libVars, delta, look>>

\* open(tmp, "wb"): creates the file or truncates the one of that name
AtomicOpen(w) ==
    /\ aw.writers[w].pc = "start"
    /\ LET tmp == TmpName(w)
           old == aw.names.tmp[tmp]
           ino == IF old = NoInode THEN Len(aw.inodes) + 1 ELSE old
       IN  aw' = [aw EXCEPT
                    !.names.tmp[tmp] = ino,
                    !.inodes = IF old = NoInode THEN Append(@, <<>>)
                               ELSE [@ EXCEPT ![old] = <<>>],
                    !.writers[w].pc = "write",
                    !.writers[w].fd = ino]
    /\ UNCHANGED atomicFrame

\* f.write(data), flushed a block at a time at the descriptor's offset
AtomicWrite(w) ==
    /\ aw.writers[w].pc = "write"
    /\ LET me == aw.writers[w]
       IN  IF me.pos < Len(me.data)
           THEN aw' = [aw EXCEPT
                         !.inodes[me.fd] = WriteAt(@, me.pos, me.data[me.pos + 1]),
                         !.writers[w].pos = @ + 1]
           ELSE aw' = [aw EXCEPT !.writers[w].pc = "replace"]
    /\ UNCHANGED atomicFrame

\* os.replace(tmp, path): FileNotFoundError when the name is gone
AtomicReplace(w) ==
    /\ aw.writers[w].pc = "replace"
    /\ LET tmp == TmpName(w)
       IN  IF aw.names.tmp[tmp] = NoInode
           THEN aw' = [aw EXCEPT !.writers[w].pc = "raised"]
           ELSE aw' = [aw EXCEPT !.names.path = aw.names.tmp[tmp],
                                 !.names.tmp[tmp] = NoInode,
                                 !.writers[w].pc = "done"]
    /\ UNCHANGED atomicFrame

\* The reader: path.exists(), then open(path)
ReaderOpen ==
    /\ aw.reader.pc = "start"
    /\ aw' = [aw EXCEPT !.reader.pc = IF aw.names.path = NoInode THEN "none"
                                      ELSE "read",
                        !.reader.fd = aw.names.path]
    /\ UNCHANGED atomicFrame

\* read(2) of the next block, end of file when there is none
ReaderRead ==
    /\ aw.reader.pc = "read"
    /\ LET me == aw.reader
           content == aw.inodes[me.fd]
       IN  IF me.pos < Len(content)
           THEN aw' = [aw EXCEPT !.reader.got = Append(@, content[me.pos + 1]),
                                 !.reader.pos = @ + 1]
           ELSE aw' = [aw EXCEPT !.reader.pc = "done"]
    /\ UNCHANGED atomicFrame

AtomicNext ==
    \/ \E w \in Writers : AtomicOpen(w)
    \/ \E w \in Writers : AtomicWrite(w)
    \/ \E w \in Writers : AtomicReplace(w)
    \/ ReaderOpen
    \/ ReaderRead

AtomicSpec == AtomicInit /\ [][AtomicNext]_vars


\* ------------------------------------------------ writer.find_existing
\* The names of one symbol directory as texts (sequences of characters),
\* globbed, split and parsed as find_existing and _parse_range do.
MaxNames == 3
DECIMALS ==
    ("0" :> 0) @@ ("1" :> 1) @@ ("2" :> 2) @@ ("3" :> 3) @@ ("4" :> 4) @@
    ("5" :> 5) @@ ("6" :> 6) @@ ("7" :> 7) @@ ("8" :> 8) @@ ("9" :> 9)
NONZERO == DOMAIN DECIMALS \ {"0"}
UNDERSCORE == <<"_">>
PARQUET == <<".", "p", "a", "r", "q", "u", "e", "t">>

\* The interval texts, the date texts and the name endings of the directory
LookupIntervals == {<<"1", "d">>, <<"1", "h">>}
StartTexts == {<<"2", "0", "2", "4", "0", "1", "0", "1">>}
EndTexts ==
    {<<"2", "0", "2", "4", "0", "1", "3", "1">>,
     <<"2", "0", "2", "4", "0", "2", "2", "8">>,
     <<"2", "0", "2", "4", "1", "2", "1">>,
     <<"2", "0", "2", "4", "0", "2", "3", "0">>,
     <<"2", "0", "2", "4", "0", "1", "3", "a">>}
Endings ==
    {PARQUET,
     <<"_", "x", ".", "p", "a", "r", "q", "u", "e", "t">>,
     <<".", "p", "a", "r", "q", "u", "e", "t", ".", "t", "m", "p">>}
NamePool ==
    {iv \o UNDERSCORE \o s \o UNDERSCORE \o e \o ending :
        iv \in LookupIntervals, s \in StartTexts, e \in EndTexts, ending \in Endings}
\* A directory of at most MaxNames names (none when it does not exist)
Directories == {{}} \cup {{names[k] : k \in 1..MaxNames} : names \in [1..MaxNames -> NamePool]}

\* The value of a run of decimal digits, blanks skipped (int(" 5") = 5)
RECURSIVE NumberOf(_)
NumberOf(text) ==
    IF text = <<>> THEN 0
    ELSE IF text[Len(text)] \notin DOMAIN DECIMALS
         THEN NumberOf(SubSeq(text, 1, Len(text) - 1))
    ELSE 10 * NumberOf(SubSeq(text, 1, Len(text) - 1)) + DECIMALS[text[Len(text)]]

\* name.rsplit(".", 1)[0]: the text before the last dot, all of it without one
RsplitDotHead(name) ==
    LET dots == {k \in DOMAIN name : name[k] = "."}
    IN  IF dots = {} THEN name
        ELSE SubSeq(name, 1, (CHOOSE k \in dots : \A j \in dots : j <= k) - 1)

\* stem.split("_")
RECURSIVE SplitUnderscore(_)
SplitUnderscore(text) ==
    LET cuts == {k \in DOMAIN text : text[k] = "_"}
    IN  IF cuts = {} THEN <<text>>
        ELSE LET k == CHOOSE c \in cuts : \A j \in cuts : c <= j
             IN  <<SubSeq(text, 1, k - 1)>> \o
                 SplitUnderscore(SubSeq(text, k + 1, Len(text)))

\* sym_dir.glob(f"{interval}_*.parquet")
Glob(dir, interval) ==
    {name \in dir : /\ Len(name) >= Len(interval) + 1 + Len(PARQUET)
                    /\ StartsWith(name, interval \o UNDERSCORE)
                    /\ EndsWith(name, PARQUET)}

\* strptime's %m, (1[0-2]|0[1-9]|[1-9]): the lengths it can take from the
\* head of a text, in the order the alternatives are tried
MonthLengths(text) ==
    (IF Len(text) >= 2 /\ text[1] = "1" /\ text[2] \in {"0", "1", "2"}
     THEN <<2>> ELSE <<>>) \o
    (IF Len(text) >= 2 /\ text[1] = "0" /\ text[2] \in NONZERO
     THEN <<2>> ELSE <<>>) \o
    (IF Len(text) >= 1 /\ text[1] \in NONZERO THEN <<1>> ELSE <<>>)

\* strptime's %d, (3[0-1]|[1-2]\d|0[1-9]|[1-9]| [1-9])
DayLengths(text) ==
    (IF Len(text) >= 2 /\ text[1] = "3" /\ text[2] \in {"0", "1"}
     THEN <<2>> ELSE <<>>) \o
    (IF Len(text) >= 2 /\ text[1] \in {"1", "2"} /\ text[2] \in DOMAIN DECIMALS
     THEN <<2>> ELSE <<>>) \o
    (IF Len(text) >= 2 /\ text[1] = "0" /\ text[2] \in NONZERO
     THEN <<2>> ELSE <<>>) \o
    (IF Len(text) >= 1 /\ text[1] \in NONZERO THEN <<1>> ELSE <<>>) \o
    (IF Len(text) >= 2 /\ text[1] = " " /\ text[2] \in NONZERO
     THEN <<2>> ELSE <<>>)

\* The days of a month of the proleptic Gregorian calendar
DaysInMonth(year, month) ==
    IF month = 2
    THEN IF year % 4 = 0 /\ (year % 100 # 0 \/ year % 400 = 0) THEN 29 ELSE 28
    ELSE IF month \in {4, 6, 9, 11} THEN 30 ELSE 31

\* datetime.strptime(text, "%Y%m%d"): four digits of year, then the first
\* month and day alternatives that match; whatever is left over, or a date
\* the calendar lacks, is a ValueError.  A date is <<year, month, day>>.
Strptime(text) ==
    IF Len(text) < 4 \/ \E k \in 1..4 : text[k] \notin DOMAIN DECIMALS
    THEN "ValueError"
    ELSE LET rest == SubSeq(text, 5, Len(text))
             months == MonthLengths(rest)
             fits == {k \in DOMAIN months :
                         DayLengths(SubSeq(rest, months[k] + 1, Len(rest))) # <<>>}
         IN  IF fits = {} THEN "ValueError"
             ELSE LET k == CHOOSE f \in fits : \A g \in fits : f <= g
                      m == months[k]
                      tail == SubSeq(rest, m + 1, Len(rest))
                      d == DayLengths(tail)[1]
                      year == NumberOf(SubSeq(text, 1, 4))
                      month == NumberOf(SubSeq(rest, 1, m))
                      day == NumberOf(SubSeq(tail, 1, d))
                  IN  IF m + d # Len(rest) THEN "ValueError"
                      ELSE IF year = 0 \/ day > DaysInMonth(year, month)
                           THEN "ValueError"
                      ELSE <<year, month, day>>

\* `return None` of _parse_range and find_existing
NoRange == [path |-> <<>>, start |-> <<>>, end |-> <<>>]

\* ParquetWriter._parse_range(path, interval)
ParseRange(name, interval) ==
    LET stem == RsplitDotHead(name)
        parts == SplitUnderscore(stem)
    IN  IF Len(parts) # 3 \/ parts[1] # interval THEN NoRange
        ELSE LET start == Strptime(parts[2])
                 end == Strptime(parts[3])
             IN  IF start = "ValueError" \/ end = "ValueError" THEN NoRange
                 ELSE [path |-> name, start |-> start, end |-> end]

\* The order of two dates
DateLeq(a, b) ==
    \/ a[1] < b[1]
    \/ a[1] = b[1] /\ a[2] < b[2]
    \/ a[1] = b[1] /\ a[2] = b[2] /\ a[3] <= b[3]

\* The candidates of find_existing
Candidates(dir, interval) ==
    {ParseRange(name, interval) : name \in Glob(dir, interval)} \ {NoRange}

\* candidates.sort(key=end); candidates[-1]: a candidate of the greatest end
\* (the stable sort leaves equal ends in the directory's listing order)
Latest(candidates) ==
    {c \in candidates : \A o \in candidates : DateLeq(o.end, c.end)}

LookupInit ==
    /\ CoreIdle
    /\ LibIdle
    /\ delta = NoDelta
    /\ aw = NoAtomic
    /\ \E dir \in Directories, interval \in LookupIntervals :
        look = [step |-> "call", interval |-> interval, dir |-> dir,
                result |-> <<>>]

lookupFrame == <<coreFrame, libVars, delta, aw>>

\* find_existing(asset_type, symbol, interval) returns; a directory that
\* does not exist is one with no names
FindExistingCall ==
    /\ look.step = "call"
    /\ LET candidates == Candidates(look.dir, look.interval)
       IN  IF candidates = {}
           THEN look' = [look EXCEPT !.step = "done", !.result = NoRange]
           ELSE \E c \in Latest(candidates) :
                   look' = [look EXCEPT !.step = "done", !.result = c]
    /\ UNCHANGED lookupFrame

LookupNext == FindExistingCall

LookupSpec == LookupInit /\ [][LookupNext]_vars


\* ---------------------------------------------------------------- claims
Range(seq) == {seq[i] : i \in DOMAIN seq}
StrictlyIncreasing(df) == \A i, j \in DOMAIN df : i < j => df[i][1] < df[j][1]
LastTask == tasks[last.idx]

\* C1 (as claimed): after a task's successful write exactly one data file
\* exists for its (asset_type, symbol, interval): the prior file of another
\* name is gone.
C1_OneFilePerTriple ==
    last.status = "ok" => Cardinality(DataPaths(fs, LastTask.sym)) = 1

\* C3: a write with merge_on_incremental and a prior file stores exactly
\* the fetched rows plus the prior rows of the datetimes not fetched, and
\* every data file is strictly increasing (hence unique) in datetime.
C3_MergeCorrect ==
    /\ (last.status = "ok" /\ mergeOn /\ last.existing # NoPath) =>
          LET R_old == last.before[last.existing].rows
              R_new == last.new_data
              out == fs[last.output_path].rows
          IN  Range(out) = Range(R_new) \cup
                  {r \in Range(R_old) : r[1] \notin Datetimes(R_new)}
    /\ \A p \in DOMAIN fs : ~p.tmp => StrictlyIncreasing(fs[p].rows)

\* C3's case: a merge where a prior row is re-fetched at another revision
\* and another prior row is kept.
C3_Witness ==
    /\ last.status = "ok" /\ mergeOn /\ last.existing # NoPath
    /\ \E r \in Range(last.before[last.existing].rows) :
          \E n \in Range(last.new_data) : n[1] = r[1] /\ n[2] # r[2]
    /\ \E r \in Range(last.before[last.existing].rows) :
          r[1] \notin Datetimes(last.new_data)

\* Some stored file of the task's triple has a name start <= task.start and
\* a maximum datetime >= task.end.
Covered(files, t) ==
    \E p \in DataPaths(files, t.sym) :
        /\ p.start <= t.start
        /\ ReadRangeMax(files, p) # NoMax
        /\ ReadRangeMax(files, p) >= t.end

\* C4 (as claimed): a task is skipped exactly when some existing file of its
\* triple covers it; a skipped task calls no source, changes no file and
\* adds one to skipped.
C4_SkippedIffCovered ==
    last.idx # 0 =>
        /\ (last.status = "skipped") <=> Covered(last.before, LastTask)
        /\ last.status = "skipped" =>
              /\ last.calls = 0
              /\ fs = last.before
              /\ stats.skipped = last.skipped_before + 1

\* C5 (as claimed): a data file's name bounds contain every datetime in it.
C5_NameCoversRows ==
    \A p \in DOMAIN fs :
        ~p.tmp => \A d \in Datetimes(fs[p].rows) : p.start <= d /\ d <= p.end

\* The second of two equal runs, both without a failure, upstream unchanged
\* since the first began, has returned.
RepeatDone == phase = "done" /\ repeat /\ stats.failed = 0 /\ runVer = ver

C2_NoWriterAfterCancel ==
    cancel => \A w \in Threads : InWriter(w) => w \in writersAtCancel

\* C7 (as claimed): a data path never holds a partially written file, and
\* a triple that had a file when the run began has a complete one at every
\* instant.
C7_AtomicPublish ==
    /\ \A p \in DOMAIN fs : ~p.tmp => Complete(fs[p])
    /\ \A sym \in Symbols :
          DataPaths(prevFs, sym) # {} =>
              \E p \in DataPaths(fs, sym) : Complete(fs[p])

\* C8 (as claimed): no two threads are inside merge_and_write for the same
\* (asset_type, symbol, interval) at once.
C8_OneWriterPerTriple ==
    \A w1, w2 \in Threads :
        (w1 # w2 /\ InWriter(w1) /\ InWriter(w2)) =>
            <<tasks[cur[w1]].sym, tasks[cur[w1]].interval>>
                # <<tasks[cur[w2]].sym, tasks[cur[w2]].interval>>

\* C9 (as claimed): once cancel() has been called the run returns.
C9_CancelLeadsToReturn == (cancel /\ phase = "running") ~> (phase = "done")

Paused == phase = "running" /\ ~pauseEv /\ ~cancel

C11_NoFailureAfterCancel ==
    cancel => /\ stats.failed = atCancel.failed
              /\ Len(failures) = atCancel.failures

\* C11 (amended): after cancel() has been called no thread passes the
\* handler's check, so failed and the FailureRecords grow only by the threads
\* that had passed it before, at most one record each; and a task no thread
\* had taken never gets past the worker's first check: no source call, no
\* file, no counter.
C11_CancelNotFailure ==
    cancel =>
        /\ \A w \in Threads : pc[w] = "w_record" => w \in atCancel.recorders
        /\ stats.failed - atCancel.failed <= Cardinality(atCancel.recorders)
        /\ Len(failures) - atCancel.failures <= Cardinality(atCancel.recorders)
        /\ queue \subseteq atCancel.queue
        /\ \A w \in Threads : cur[w] \in atCancel.queue => pc[w] = "w_cancel1"

\* C11's case: cancel() has been called, a task's fetch has raised and its
\* handler runs next, and another task was still queued when cancel() came.
C11_Witness ==
    /\ cancel /\ atCancel.queue # {}
    /\ \E w \in Threads : pc[w] = "w_except"

\* C14: a task whose fetches bring no row (it is not skipped and nothing
\* raises) ends "empty": no file is created, replaced or deleted, skipped
\* and failed are unchanged and completed has grown by one.
C14_EmptyTask ==
    (last.idx # 0 /\ last.status \notin {"skipped", "failed"}
                  /\ last.new_data = <<>>) =>
        /\ last.status = "empty"
        /\ fs = last.before
        /\ stats.skipped = last.skipped_before
        /\ stats.failed = last.failed_before
        /\ stats.completed = last.completed_before + 1

\* C14's case: the source was called and had no row, with a file of the
\* symbol stored already.
C14_Witness ==
    /\ last.status = "empty" /\ last.calls > 0
    /\ DataPaths(fs, LastTask.sym) # {}

\* ----------------------------------------------------- claims, RetrySpec
\* The call of the task executed last is over
FetchOver == yf.rpc = "done" /\ last.idx = yf.task

\* Every request of the call met a transient or a throttling error
KeptFailing == \A k \in DOMAIN yf.script : yf.script[k] \in {"error", "throttle"}

\* C12 (as claimed): a task whose fetches keep failing with a transient error
\* (HTTP 429 included) until the budget is spent is counted in failed and
\* recorded, and the run still executes all its tasks.
C12_ExhaustedIsFailed ==
    /\ (FetchOver /\ KeptFailing) =>
          /\ last.status = "failed"
          /\ stats.failed = last.failed_before + 1
          /\ failures # <<>> /\ failures[Len(failures)] = LastTask
    /\ (phase = "done" /\ tasks # <<>>) => stats.completed = stats.total

\* C13 (as claimed): a throttling response is followed by a retry and takes
\* nothing from the budget: a call gives up after exactly max_retries + 1
\* other failures, and never because of a throttling response.
C13_ThrottleKeepsBudget ==
    /\ yf.result = "raised" => yf.errors = MaxRetries + 1
    /\ yf.result = "empty" => \E k \in DOMAIN yf.script : yf.script[k] = "empty"

\* C15 (as claimed): once a run has returned, failures.csv holds exactly the
\* FailureRecords of that run.
C15_CsvIsLastRun ==
    phase = "done" => failuresCsv = failures

\* C15 (amended): a run that recorded at least one failure leaves in
\* failures.csv exactly its FailureRecords, in the order they were recorded;
\* a run that recorded none leaves the file as it found it, and nothing
\* else changes the file.
C15_CsvWrittenIfFailures ==
    [][failuresCsv' = IF phase = "running" /\ phase' = "done" /\ failures # <<>>
                      THEN failures
                      ELSE failuresCsv]_vars

\* A second run has returned with failures and has replaced the file
C15_Witness ==
    phase = "done" /\ runs > 1 /\ failures # <<>> /\ failuresCsv = failures

\* ----------------------------------------------------- claims, ReloadSpec
\* The only_failures run is over: it raised, or it has executed its tasks
ReloadOver == reload.step \in {"raised", "ran"}

\* Task t, reloaded: the same fields, the same calendar dates
SameTask(t, loaded) ==
    /\ loaded.symbol = <<t.symbol>> /\ loaded.interval = <<t.interval>>
    /\ loaded.asset_type = <<t.asset_type>> /\ loaded.adjust = <<t.adjust>>
    /\ loaded.start = t.start /\ loaded.end = t.end

\* C16 (as claimed): reloading the failures.csv a run wrote yields one task
\* per FailureRecord, in the same order and with the same fields and dates,
\* whatever the reasons hold, and the only_failures run executes these tasks.
C16_ReloadRoundTrip ==
    (reload.origin = "run" /\ reload.via = "api" /\ ReloadOver) =>
        /\ reload.step = "ran"
        /\ Len(reload.executed) = Len(reload.records)
        /\ \A k \in DOMAIN reload.records :
              SameTask(reload.records[k].task, reload.executed[k])

\* C17 (as claimed): the rows of a reloaded failures.csv are validated against
\* the row schema: a strict reload raises ValidationFailureRecordError at the
\* first malformed row and no task is executed, any other reload executes the
\* tasks of the well-formed rows only.
C17_ReloadValidates ==
    (reload.origin = "foreign" /\ ReloadOver) =>
        LET v == ValidateFailureRows(DictReader(reload.text), reload.strict)
        IN  /\ reload.error = v.error
            /\ reload.executed = v.tasks

\* ----------------------------------------------------- claims, RouterSpec
\* C18 (as claimed): every fetch of a task is served by the source registered
\* for the task's asset_type, by the default source if there is none.
C18_ServedByOwnSource ==
    \A k \in DOMAIN router.served : router.served[k] = Select(router.tasks[k])

\* ----------------------------------------------------- claims, LimiterSpec
\* Callers whose release time has been assigned
Assigned == {limiter.order[k] : k \in DOMAIN limiter.order}

\* ceil(requests_per_second) + 1
WindowBound ==
    LET rps == limiter.config.requests_per_second
    IN  ((rps.num + rps.den - 1) \div rps.den) + 1

\* Jitter is off, the rate is limited
ZeroJitter ==
    limiter.config.jitter.max = 0 /\ limiter.config.requests_per_second.num > 0

\* C19: with requests_per_second > 0, the release times assigned to
\* successive acquisitions differ by at least 1/requests_per_second plus the
\* jitter drawn for the later one, which lies in [jitter_min, jitter_max];
\* no two callers are assigned the same release time.
C19_ReleaseSpacing ==
    limiter.config.requests_per_second.num > 0 =>
        /\ \A k \in DOMAIN limiter.order : k > 1 =>
              LET c == limiter.order[k]
                  before == limiter.order[k - 1]
              IN  /\ limiter.release[c] >=
                        limiter.release[before]
                        + MinInterval(limiter.config.requests_per_second)
                        + limiter.jitter[c]
                  /\ limiter.jitter[c] \in Jitters(limiter.config.jitter)
        /\ \A c \in Assigned : \A d \in Assigned :
              c # d => limiter.release[c] # limiter.release[d]
        /\ limiter.last_ts \in {0} \cup {limiter.release[c] : c \in Assigned}

\* Three callers met at the lock: the later ones were assigned the slots
\* that follow, at exactly the least distance
C19_Witness ==
    /\ limiter.config.requests_per_second.num > 0
    /\ limiter.config.jitter.max > 0
    /\ Len(limiter.order) = MaxCallers
    /\ \A k \in DOMAIN limiter.order : k > 1 =>
          /\ limiter.now[limiter.order[k]] < limiter.release[limiter.order[k - 1]]
          /\ limiter.release[limiter.order[k]] =
                limiter.release[limiter.order[k - 1]]
                + MinInterval(limiter.config.requests_per_second)
                + limiter.jitter[limiter.order[k]]

\* C20 (as claimed): with zero jitter, at most ceil(r) + 1 calls of wait()
\* return in any window of one second.
C20_ReturnsPerWindow ==
    ZeroJitter =>
        \A t \in 0..MaxClock :
            Cardinality({c \in Callers : /\ limiter.pc[c] = "done"
                                         /\ limiter.returned[c] \in t..(t + TicksPerSecond)})
                <= WindowBound

\* C20 (amended): with zero jitter, at most ceil(r) + 1 of the release times
\* assigned lie in any window of one second, and no call of wait() returns
\* before its release time.
C20_ReleasesPerWindow ==
    ZeroJitter =>
        /\ \A t \in 0..(MaxClock + MaxCallers * 2 * TicksPerSecond) :
              Cardinality({c \in Assigned :
                              limiter.release[c] \in t..(t + TicksPerSecond)})
                  <= WindowBound
        /\ \A c \in Callers :
              limiter.pc[c] = "done" => limiter.returned[c] >= limiter.release[c]

\* All callers have returned, and one window holds as many release times as
\* the bound allows
C20_Witness ==
    /\ ZeroJitter
    /\ \A c \in Callers : limiter.pc[c] = "done"
    /\ \E t \in 0..MaxClock :
          Cardinality({c \in Assigned : limiter.release[c] \in t..(t + TicksPerSecond)})
              = WindowBound

\* ----------------------------------------------------- claims, CatalogSpec
\* A get_catalog call has been made
Called == catalog.calls > 0

\* The request that decided the call's remote fetch: the first one of a
\* screener, the first one without an error of a list endpoint (0: none)
Deciding ==
    LET c == catalog.call
        answered == {k \in DOMAIN c.script : c.script[k] # "error"}
    IN  IF c.asset_type \in SCREENER_ASSETS THEN 1
        ELSE IF answered = {} THEN 0
        ELSE CHOOSE k \in answered : \A j \in answered : k <= j

\* The remote fetch of the call brought symbols
RemoteSucceeded == Deciding # 0 /\ catalog.call.script[Deciding] = "items"

\* C21 (as claimed): the provenance is cache, else remote, else
\* cache-fallback, else static-fallback with the preset of the asset class,
\* which is cached; an error is raised only when none of these is to be had,
\* and it carries the last remote error.
C21_Provenance ==
    Called =>
        LET c == catalog.call
            a == c.asset_type
            hit == c.before[a] # NoCache
        IN  IF ~c.refresh /\ hit
                THEN c.source = "cache" /\ c.items = c.before[a] /\ catalog.cache = c.before
            ELSE IF RemoteSucceeded
                THEN /\ c.source = "remote" /\ c.items = RemoteList(a)
                     /\ catalog.cache = [c.before EXCEPT ![a] = RemoteList(a)]
            ELSE IF hit
                THEN /\ c.source = "cache-fallback" /\ c.items = c.before[a]
                     /\ catalog.cache = c.before
            ELSE IF StaticCatalog(a) # <<>>
                THEN /\ c.source = "static-fallback" /\ c.items = StaticCatalog(a)
                     /\ catalog.cache = [c.before EXCEPT ![a] = StaticCatalog(a)]
            ELSE /\ c.error = "RuntimeError" /\ catalog.cache = c.before
                 /\ (\A k \in DOMAIN c.script : c.script[k] = "error")
                        => c.last_error = CatalogRetries + 1

\* C22 (as claimed): a result tagged remote holds the items a remote endpoint
\* returned during the call; the preset, used when the screener fails or
\* answers nothing, is tagged static-fallback.
C22_RemoteIsRemote ==
    Called =>
        /\ catalog.call.source = "remote" =>
              RemoteSucceeded /\ catalog.call.items = RemoteList(catalog.call.asset_type)
        /\ (catalog.call.error = "none"
            /\ catalog.call.items = StaticCatalog(catalog.call.asset_type))
              => catalog.call.source = "static-fallback"

\* ----------------------------------------------------- claims, WriterSpec
\* The task's output path, resolved, leaves data_root
Escapes == ~IsRelativeTo(Resolve(RawPath(wr.task), wr.linked), DATA_ROOT)

C24_FailedWriteLeavesNothing ==
    (wr.step = "raised" /\ wr.error = "OSError") =>
        /\ wr.failed
        /\ wr.files = wr.before

\* ----------------------------------------------------- claims, FilterSpec
INCLUDE_FIELDS ==
    {"include_symbols", "include_exchanges", "include_market_categories",
     "include_fund_categories", "include_prefixes", "include_regex", "include_name_regex"}
EXCLUDE_FIELDS ==
    {"exclude_symbols", "exclude_exchanges", "exclude_market_categories",
     "exclude_fund_categories", "exclude_prefixes", "exclude_regex", "exclude_name_regex"}

\* The values of a field that take part in the test: the non-empty values,
\* and of the patterns those that compile
Usable(fld, filters) ==
    {filters[fld][k] : k \in {j \in DOMAIN filters[fld] :
        /\ filters[fld][j] # <<>> \/ fld \in REGEX_FIELDS
        /\ filters[fld][j] \notin INVALID_PATTERNS \/ fld \notin REGEX_FIELDS}}

\* A raw value of the item, or its display alias
CodeOrAlias(code, alias) == {code} \cup (IF alias = None THEN {} ELSE {alias})

\* The item matches one of the values of the field
Matches(fld, item, filters) ==
    \E v \in Usable(fld, filters) :
        CASE fld \in {"include_symbols", "exclude_symbols"} ->
                Upper(item.symbol) = Upper(v)
          [] fld \in {"include_exchanges", "exclude_exchanges"} ->
                normalize_exchange_value(v) \in
                    CodeOrAlias(normalize_exchange_value(OrEmpty(item.exchange)),
                                exchange_alias(item.exchange))
          [] fld \in {"include_market_categories", "exclude_market_categories"} ->
                normalize_market_value(v) \in
                    CodeOrAlias(normalize_market_value(OrEmpty(item.market_category)),
                                market_alias(item.market_category))
          [] fld \in {"include_fund_categories", "exclude_fund_categories"} ->
                normalize_fund_category(v) \in
                    CodeOrAlias(normalize_fund_category(OrEmpty(item.fund_category)),
                                fund_category_alias(item.fund_category))
          [] fld \in {"include_prefixes", "exclude_prefixes"} ->
                StartsWith(Upper(item.symbol), Upper(v))
          [] fld \in {"include_regex", "exclude_regex"} ->
                Contains(Upper(item.symbol), Upper(v))
          [] fld \in {"include_name_regex", "exclude_name_regex"} ->
                Contains(Upper(OrEmpty(item.name)), Upper(v))

\* The ETF and fund flags: both True admits an ETF or a fund; True alone
\* demands the mark, False forbids it
FlagsAdmit(item, filters) ==
    /\ (filters.only_etf = "True" /\ filters.only_fund = "True")
          => (item.is_etf = "True" \/ item.is_fund = "True")
    /\ (filters.only_etf = "True" /\ filters.only_fund # "True") => item.is_etf = "True"
    /\ (filters.only_fund = "True" /\ filters.only_etf # "True") => item.is_fund = "True"
    /\ filters.only_etf = "False" => item.is_etf # "True"
    /\ filters.only_fund = "False" => item.is_fund # "True"

\* The item satisfies every configured predicate
Satisfies(item, filters) ==
    /\ \A fld \in INCLUDE_FIELDS : Usable(fld, filters) # {} => Matches(fld, item, filters)
    /\ \A fld \in EXCLUDE_FIELDS : ~Matches(fld, item, filters)
    /\ FlagsAdmit(item, filters)

\* C25: _apply_filters returns, in input order, exactly the items that
\* satisfy every configured predicate, the predicates taken as a set (in no
\* order); an item that matches an exclude list is never returned, whatever
\* include list it matches.
C25_FilterIsConjunction ==
    filt.step = "filtered" =>
        /\ filt.result = SelectSeq(filt.items, LAMBDA item : Satisfies(item, filt.filters))
        /\ \A k \in DOMAIN filt.result : \A fld \in EXCLUDE_FIELDS :
              ~Matches(fld, filt.result[k], filt.filters)

\* Of two items, one is in the include list and in the exclude list and is
\* dropped, the other is returned
C25_Witness ==
    /\ filt.step = "filtered" /\ Len(filt.items) = 2 /\ Len(filt.result) = 1
    /\ Matches("include_symbols", filt.items[1], filt.filters)
    /\ Matches("exclude_symbols", filt.items[1], filt.filters)
    /\ filt.result[1] = filt.items[2]

\* The configuration without the patterns that do not compile
Compilable(filters) ==
    [fld \in DOMAIN filters |->
        IF fld \in REGEX_FIELDS
        THEN SelectSeq(filters[fld], LAMBDA pat : pat \notin INVALID_PATTERNS)
        ELSE filters[fld]]

\* C26: a pattern that does not compile is dropped and the filter is that
\* of the remaining patterns; an include list of which no pattern compiles
\* is an empty include list.
C26_InvalidRegexDropped ==
    filt.step = "filtered" =>
        /\ filt.result = SelectSeq(filt.items,
                                   LAMBDA item : Satisfies(item, Compilable(filt.filters)))
        /\ \A fld \in REGEX_FIELDS \cap INCLUDE_FIELDS :
              (filt.filters[fld] # <<>> /\ Compilable(filt.filters)[fld] = <<>>)
                => filt.result =
                     SelectSeq(filt.items,
                               LAMBDA item : Satisfies(item, [filt.filters EXCEPT ![fld] = <<>>]))

\* include_regex holds two patterns, neither compiles, and both items of the
\* catalog are returned
C26_Witness ==
    /\ filt.step = "filtered"
    /\ filt.filters.include_regex = <<<<"(">>, <<"[">>>>
    /\ Len(filt.items) = 2 /\ filt.result = filt.items

\* ------------------------------------------------------ claims, BatchSpec
\* C27: validate_batch returns one FileSummary per input file and calls
\* on_result once per file; every call carries progress.total = the number
\* of files, and the k-th call carries progress.completed = k; this holds on
\* the serial path and on the pooled path, and for files that cannot be read.
C27_OneSummaryPerFile ==
    /\ \A k \in DOMAIN batch.calls :
          /\ batch.calls[k].progress.total = Len(batch.files)
          /\ batch.calls[k].progress.completed = k
          /\ \A j \in DOMAIN batch.calls :
                batch.calls[j].summary.path = batch.calls[k].summary.path => j = k
    /\ batch.step = "returned" =>
          /\ Len(batch.summaries) = Len(batch.files)
          /\ Len(batch.calls) = Len(batch.files)
          /\ \A p \in DOMAIN batch.files :
                /\ \E k \in DOMAIN batch.summaries : batch.summaries[k].path = p
                /\ \E k \in DOMAIN batch.calls : batch.calls[k].summary.path = p

\* The pool returned after an unreadable file, taken out of turn
C27_Witness ==
    /\ batch.step = "returned" /\ batch.workers > 1 /\ Len(batch.files) > SERIAL_LIMIT
    /\ batch.summaries[1].path # 1
    /\ \E k \in DOMAIN batch.summaries : batch.summaries[k].row_count = "empty"

\* ------------------------------------------------------ claims, SplitSpec
\* The existing file's name covers the start of the task and its rows end
\* before the end of the task
TailOnly ==
    /\ split.existing # NoExisting /\ split.existing.start <= split.task.start
    /\ split.existing.max # NoMax /\ split.existing.max < split.task.end

ChunkCount(start, end, batch_days) ==
    ((end - start) + batch_days * DAY - 1) \div (batch_days * DAY)

\* C29: for start < end and batch_days >= 1 the range is split into
\* ceil((end - start) / batch_days) chunks: the first starts at start, each
\* starts where the one before ended, the last ends at end, none is empty or
\* longer than batch_days days; they are requested one after another in that
\* order (a cancel or an error ends the requests early).
C29_ChunksCoverRange ==
    split.step \in {"fetching", "fetched", "cancelled", "raised"} =>
        LET start == FetchFrom(split.task, split.existing)
            end == split.task.end
            chunks == split.chunks
        IN  /\ start < end =>
                /\ Len(chunks) = ChunkCount(start, end, split.batch_days)
                /\ chunks[1][1] = start
                /\ chunks[Len(chunks)][2] = end
                /\ \A k \in DOMAIN chunks :
                      /\ chunks[k][1] < chunks[k][2]
                      /\ chunks[k][2] - chunks[k][1] <= split.batch_days * DAY
                      /\ k > 1 => chunks[k][1] = chunks[k - 1][2]
            /\ Len(split.requested) <= Len(chunks)
            /\ \A k \in DOMAIN split.requested : split.requested[k] = chunks[k]
            /\ split.step = "fetched" => split.requested = chunks

\* A range of three and a half days in chunks of one day: four chunks, the
\* last one short, all fetched
C29_Witness ==
    /\ split.step = "fetched" /\ split.batch_days = 1
    /\ split.task.end - FetchFrom(split.task, split.existing) = 3 * DAY + 1
    /\ Len(split.requested) = 4

\* ------------------------------------------------------- claims, RingSpec
\* The last n elements of a sequence
LastOf(seq, n) == SubSeq(seq, Len(seq) - n + 1, Len(seq))

\* failed counts the records, recent_failures are the last 20 of them
RingAgrees(st, records) ==
    /\ st.failed = Len(records)
    /\ st.recent_failures = LastOf(records, Min(RING_SIZE, st.failed))

\* C30: in every state the progress callback is given, and when run()
\* returns, failed is the number of FailureRecords collected so far and
\* recent_failures holds the last min(20, failed) of them, in order.
C30_RingIsTail ==
    /\ \A k \in DOMAIN ring.seen : RingAgrees(ring.seen[k].stats, ring.seen[k].failures)
    /\ ring.step = "returned" => RingAgrees(ring.stats, ring.failures)

\* The callback was given the twenty-second failure of a run
C30_Witness ==
    /\ ring.seen # <<>> /\ ring.seen[1].stats.failed = RING_SIZE + 2
    /\ Len(ring.seen[1].stats.recent_failures) = RING_SIZE
    /\ ring.seen[1].stats.recent_failures[1] = 3

\* ------------------------------------------- claims, PoolSpec: the counters
\* C31: in every state of a run 0 <= active <= concurrency,
\* completed + active <= total and failed + skipped <= completed + active.
C31_StatsBounds ==
    /\ 0 <= stats.active /\ stats.active <= concurrency
    /\ stats.completed + stats.active <= stats.total
    /\ stats.failed + stats.skipped <= stats.completed + stats.active

\* C31's case: every pool thread has a task in flight, no task is left, and
\* each task in flight has been counted as failed or skipped already.
C31_Witness ==
    /\ phase = "running" /\ concurrency = MaxConcurrency
    /\ stats.active = concurrency
    /\ stats.completed + stats.active = stats.total
    /\ stats.failed + stats.skipped = stats.completed + stats.active
    /\ stats.failed > 0 /\ stats.skipped > 0

\* ----------------------------------------------- claims, PoolLiveSpec
\* run() has returned, every task counted and none in flight, and
\* _run_task was called once for each task
ReturnedComplete ==
    /\ phase = "done"
    /\ stats.completed = stats.total /\ stats.active = 0
    /\ \A i \in DOMAIN tasks : executed[i] = 1

\* C32: with cancel() never called, every pause() followed by a resume()
\* and every source call returning or raising, a run that has started
\* returns, with completed = total, active = 0 and every task executed
\* exactly once; at no time has a task been executed twice.
C32_RunReturnsComplete ==
    /\ (phase = "running") ~> ReturnedComplete
    /\ [](\A i \in DOMAIN executed : executed[i] <= 1)

\* C32's case: a run of two tasks on two threads has returned; it was
\* paused after its first task completed, and a task of it failed.
C32_Witness ==
    /\ ReturnedComplete
    /\ concurrency = MaxConcurrency /\ Len(tasks) = MaxSymbols
    /\ completedAtPause = 1 /\ stats.failed = 1

\* ----------------------------------- claims, PoolSpec: a fetch that raises
\* C33: a task one of whose chunk fetches raised writes nothing: from the
\* raise to the end of its worker call, no step of its thread creates,
\* replaces or deletes a file, whatever the earlier chunks returned.
C33_RaisedWritesNothing ==
    [][\A w \in Threads :
          (loc[w].raised /\ pc'[w] # pc[w]) => fs' = fs]_vars

\* C33's case: the second chunk of a task raised after the first had
\* returned rows, and the worker has recorded the failure.
C33_Witness ==
    \E w \in Threads :
        /\ loc[w].raised /\ loc[w].frames # <<>>
        /\ pc[w] = "w_finally"
        /\ stats.failed > 0

\* ------------------------------------------------ claims, HistorySpec
\* The datetimes stored for a symbol's triple, over all its data files
StoredDatetimes(files, sym) ==
    UNION {Datetimes(files[p].rows) : p \in DataPaths(files, sym)}

\* C34 (as claimed): after a task that wrote its file, every datetime that
\* was stored for its triple before the task is still stored for it, with
\* merge_on_incremental on or off.
C34_WriteKeepsHistory ==
    (last.idx # 0 /\ last.status = "ok") =>
        StoredDatetimes(last.before, LastTask.sym)
            \subseteq StoredDatetimes(fs, LastTask.sym)

\* -------------------------------------------------- claims, DeltaSpec
\* The units of the recognized tokens and the seconds of one of each
TOKEN_UNITS ==
    (<<"d">> :> 86400) @@ (<<"h">> :> 3600) @@ (<<"m">> :> 60) @@ (<<"s">> :> 1)
    @@ (<<"w", "k">> :> 7 * 86400) @@ (<<"w">> :> 7 * 86400)
    @@ (<<"m", "o">> :> 30 * 86400) @@ (<<"y">> :> 365 * 86400)

\* The token is a positive count followed by the unit
CountOf(token, unit) ==
    /\ EndsWith(token, unit)
    /\ AllDigits(DropLast(token, Len(unit)))
    /\ DecimalValue(DropLast(token, Len(unit))) > 0

Recognized(token) == \E unit \in DOMAIN TOKEN_UNITS : CountOf(token, unit)

\* C35 (as claimed): a recognized token - a positive count followed by d,
\* h, m, s, wk, w, mo or y - is converted to count times the unit's
\* duration; whatever is returned is strictly positive; and every token
\* that is not recognized raises.
C35_IntervalDelta ==
    delta.step = "done" =>
        /\ \A unit \in DOMAIN TOKEN_UNITS :
              CountOf(delta.interval, unit) =>
                  delta.result =
                      Timedelta(DecimalValue(DropLast(delta.interval, Len(unit)))
                                    * TOKEN_UNITS[unit])
        /\ delta.result.raised = "none" => delta.result.seconds > 0
        /\ ~Recognized(delta.interval) => delta.result.raised # "none"

\* ------------------------------------- claims, CatalogSpec: the retry loop
\* base to the power n
RECURSIVE Pow(_, _)
Pow(base, n) == IF n = 0 THEN 1 ELSE base * Pow(base, n - 1)

\* The last call of get_catalog went to a list endpoint (stock, ashare)
FetchedRemotely ==
    /\ catalog.calls > 0
    /\ catalog.call.source # "cache"
    /\ catalog.call.asset_type \notin SCREENER_ASSETS

\* The attempts of the script that do not raise
Successes(script) == {k \in DOMAIN script : script[k] # "error"}

\* The wait after the k-th failed attempt is sleep_sec * retry_backoff^(k-1)
BackoffDelays ==
    \A k \in DOMAIN catalog.call.sleeps :
        catalog.call.sleeps[k]
            = catalog.config.sleep_sec * Pow(catalog.config.retry_backoff, k - 1)

\* C36 (as claimed): a remote fetch stops at its first successful attempt,
\* makes `retries` attempts when every one of them fails, and waits
\* sleep_sec * retry_backoff^(k-1) after the k-th failed attempt.
C36_RetriesAttempts ==
    FetchedRemotely =>
        /\ \A k \in 1..CatalogRetries :
              (k \in Successes(catalog.call.script)
                 /\ \A j \in 1..(k - 1) : j \notin Successes(catalog.call.script))
                  => catalog.call.attempts = k
        /\ (\A k \in 1..CatalogRetries : k \notin Successes(catalog.call.script))
              => catalog.call.attempts = CatalogRetries
        /\ BackoffDelays

\* C36 (amended): a remote fetch of a list endpoint stops at its first
\* successful attempt, makes retries + 1 attempts when every one of them
\* fails, and sleeps sleep_sec * retry_backoff^(k-1) after the k-th failed
\* attempt, the last one included.
C36_RetriesPlusOneAttempts ==
    FetchedRemotely =>
        /\ \A k \in 1..(CatalogRetries + 1) :
              (k \in Successes(catalog.call.script)
                 /\ \A j \in 1..(k - 1) : j \notin Successes(catalog.call.script))
                  => /\ catalog.call.attempts = k
                     /\ Len(catalog.call.sleeps) = k - 1
        /\ Successes(catalog.call.script) = {}
              => /\ catalog.call.attempts = CatalogRetries + 1
                 /\ Len(catalog.call.sleeps) = CatalogRetries + 1
        /\ BackoffDelays

\* C36's case: every attempt failed, with a delay that grows, and the fetch
\* that succeeded at its last attempt.
C36_Witness ==
    /\ FetchedRemotely
    /\ catalog.config.retry_backoff > 1
    /\ \/ Successes(catalog.call.script) = {}
       \/ Successes(catalog.call.script) = {CatalogRetries + 1}

\* ------------------------------------ claims, CatalogSpec: the cache file
\* C37 (as claimed): a call of get_catalog leaves every cache file as it
\* was, but for the file of its asset class when the remote fetch succeeded
\* (the file then holds the endpoint's whole list) or when, no file being
\* there, the static preset is installed; a failed refresh and a cache hit
\* leave the file as it was.
C37_CacheChangesOnSuccess ==
    catalog.calls > 0 =>
        LET c == catalog.call
            a == catalog.call.asset_type
        IN  /\ \A b \in CatalogAssets \ {a} : catalog.cache[b] = c.before[b]
            /\ catalog.cache[a] # c.before[a] =>
                  \/ RemoteSucceeded /\ catalog.cache[a] = RemoteList(a)
                  \/ c.before[a] = NoCache /\ catalog.cache[a] = StaticCatalog(a)
            /\ c.source = "cache" => catalog.cache = c.before
            /\ (c.refresh /\ ~RemoteSucceeded /\ c.before[a] # NoCache)
                  => catalog.cache = c.before


\* The contents a completed write leaves: the earlier file or a writer's data
CompleteContents == {OldContent} \cup {aw.writers[w].data : w \in Writers}

\* C38 (as claimed): the final path always holds the complete content of one
\* write, and a reader that has read it to the end got such a content, also
\* with two writers of the same path.
C38_NoPartialContent ==
    aw # NoAtomic =>
        /\ aw.names.path # NoInode => aw.inodes[aw.names.path] \in CompleteContents
        /\ aw.reader.pc = "done" => aw.reader.got \in CompleteContents

\* A date text of exactly YYYYMMDD
StrictDate(text) ==
    /\ Len(text) = 8
    /\ \A k \in DOMAIN text : text[k] \in DOMAIN DECIMALS
    /\ NumberOf(SubSeq(text, 1, 4)) >= 1
    /\ NumberOf(SubSeq(text, 5, 6)) \in 1..12
    /\ NumberOf(SubSeq(text, 7, 8)) \in
          1..DaysInMonth(NumberOf(SubSeq(text, 1, 4)), NumberOf(SubSeq(text, 5, 6)))

\* The names <interval>_YYYYMMDD_YYYYMMDD.parquet of a directory
Qualifying(dir, interval) ==
    {name \in dir :
        \E s, e \in {t \in {SubSeq(name, i, i + 7) : i \in 1..(Len(name) - 7)} :
                        StrictDate(t)} :
            name = interval \o UNDERSCORE \o s \o UNDERSCORE \o e \o PARQUET}

\* The end date a qualifying name states, as one number
EndOfName(name) == NumberOf(SubSeq(name, Len(name) - Len(PARQUET) - 7,
                                   Len(name) - Len(PARQUET)))

\* C39 (as claimed): find_existing returns None when no name of the
\* directory is <interval>_YYYYMMDD_YYYYMMDD.parquet, and otherwise one of
\* those names of the greatest end date; names of other intervals and
\* malformed names play no part.
C39_FindExistingLatest ==
    look.step = "done" =>
        LET q == Qualifying(look.dir, look.interval)
        IN  IF q = {} THEN look.result = NoRange
            ELSE /\ look.result # NoRange
                 /\ look.result.path \in q
                 /\ \A name \in q : EndOfName(name) <= EndOfName(look.result.path)

\* validate_batch's serial loop as a function of the list: the summaries in
\* the order of the files, the issues of the files one after another
RECURSIVE SerialIssues(_, _)
SerialIssues(files, n) ==
    IF n = 0 THEN <<>>
    ELSE SerialIssues(files, n - 1) \o ValidateParquetFile(files, n).issues
SerialSummaries(files) == [p \in DOMAIN files |-> ValidateParquetFile(files, p).summary]

\* How often an issue occurs in a list
Occurrences(issues, issue) == Cardinality({k \in DOMAIN issues : issues[k] = issue})

\* The call took the pool
Pooled == Len(batch.files) > SERIAL_LIMIT /\ batch.workers > 1

\* C40: what validate_batch returns, on the serial path and on the pooled
\* path alike, holds the summaries the serial loop gives for the list, as a
\* set, and its issues, each as often: the two paths differ in order only.
C40_PathsAgree ==
    batch.step = "returned" =>
        LET summaries == SerialSummaries(batch.files)
            issues == SerialIssues(batch.files, Len(batch.files))
        IN  /\ Range(batch.summaries) = Range(summaries)
            /\ Len(batch.summaries) = Len(summaries)
            /\ \A issue \in Range(batch.all_issues) \cup Range(issues) :
                  Occurrences(batch.all_issues, issue) = Occurrences(issues, issue)

\* A pooled call has returned the summaries and the issues of two unreadable
\* files in another order than the serial loop gives
C40_Witness ==
    /\ batch.step = "returned" /\ Pooled
    /\ batch.summaries # SerialSummaries(batch.files)
    /\ Len(batch.all_issues) >= 2
    /\ batch.all_issues # SerialIssues(batch.files, Len(batch.files))

=========================================================================
